---------------------------- MODULE Spec2Model ----------------------------
(***************************************************************************)
(* A model of jserial, a decoder for the Java Object Serialization Stream  *)
(* Protocol (deserialize.go).  The parser is a recursive-descent parser;   *)
(* it is modelled as a stack machine over a byte sequence: one frame per   *)
(* active Go function, one action per function or per segment of a         *)
(* function between two recursive calls.  Go maps and *clazz values are    *)
(* heap objects (they are aliased and mutated in place), slices and        *)
(* strings are values.  Integers are the 64-bit build's: int is wider than *)
(* every length read from the stream.                                      *)
(***************************************************************************)
EXTENDS Integers, Sequences, FiniteSets, TLC

VARIABLES
    input,      \* the bytes given to the entry point
    entry,      \* the entry point called
    pos,        \* number of bytes the parser has consumed from its reader
    handles,    \* sop.handles
    maps,       \* heap of map[string]interface{} objects, by address
    classes,    \* heap of clazz objects, by address
    stack,      \* the active calls, innermost last
    ret,        \* the value the last returned call handed to its caller
    status,     \* "run", "ok" (err == nil), "error" (err != nil), "panic"
    err,        \* the error returned by the entry point
    out,        \* content, the values returned by ParseSerializedObject
    minimal,    \* the values returned by ParseSerializedObjectMinimal
    last,       \* history: the step just taken and the state it started from
    produced    \* history: number of handle-producing tags dispatched

vars == <<input, entry, pos, handles, maps, classes, stack, ret, status, err,
          out, minimal, last, produced>>

(***************************************************************************)
(* Values (interface{}).  k is the dynamic type, n a number or a heap      *)
(* address, q a byte string or a sequence of values.                       *)
(***************************************************************************)
Val(k, n, q) == [k |-> k, n |-> n, q |-> q]
Nil == Val("nil", 0, <<>>)                \* untyped nil
Str(s) == Val("string", 0, s)
Bytes(b) == Val("bytes", 0, b)            \* []byte
Int8(n) == Val("int8", n, <<>>)
Int16(n) == Val("int16", n, <<>>)
Int32(n) == Val("int32", n, <<>>)
Int64(b) == Val("int64", 0, b)            \* the 8 big-endian bytes
Float32(b) == Val("float32", 0, b)        \* the 4 big-endian bytes
Float64(b) == Val("float64", 0, b)
Bool(b) == Val("bool", IF b THEN 1 ELSE 0, <<>>)
Char(c) == Val("char", c, <<>>)           \* string(rune(charCode))
Slice(q) == Val("slice", 0, q)            \* []interface{}
MapV(a) == Val("map", a, <<>>)            \* map[string]interface{} at address a
ClazzV(a) == Val("clazz", a, <<>>)        \* *clazz at address a, 0 the nil pointer
FieldV(t, name, cn) == [k |-> "field", n |-> t, q |-> name, className |-> cn]

\* endBlock, the sentinel parseEndBlockData returns
endBlock == Val("endBlockT", 0, <<>>)

(***************************************************************************)
(* Strings of the program, as byte sequences.                              *)
(***************************************************************************)
KeyClass == <<99, 108, 97, 115, 115>>
KeyExtends == <<101, 120, 116, 101, 110, 100, 115>>
KeyAt == <<64>>
KeyValue == <<118, 97, 108, 117, 101>>
KeyLength == <<108, 101, 110, 103, 116, 104>>

typeMask == 112
refIDMask == 8257536
protocolVersion == 5
streamMagic == 44269
minClassNameLength == 2
serialVersionUIDLength == 8
bufferSize == 1024

\* typeNames includes all known type names.
typeNames == <<"Null", "Reference", "ClassDesc", "Object", "String", "Array",
               "Class", "BlockData", "EndBlockData", "Reset", "BlockDataLong",
               "Exception", "LongString", "ProxyClassDesc", "Enum">>

\* typeNameMax is used to ensure an encountered type is known.
typeNameMax == Len(typeNames) - 1

\* a variant of allowedClazzNames that lets a Class tag through
allowedClazzNamesAndClass == {"ClassDesc", "ProxyClassDesc", "Null", "Reference", "Class"}

\* allowedClazzNames includes all allowed names when parsing a class descriptor.
allowedClazzNames == {"ClassDesc", "ProxyClassDesc", "Null", "Reference"}

\* a variant of knownParsers that has an entry for ProxyClassDesc
knownParsersAndProxy ==
    {"Enum", "BlockDataLong", "Null", "EndBlockData", "BlockData", "Object",
     "ClassDesc", "Array", "String", "LongString", "Class", "Reference",
     "ProxyClassDesc"}

\* knownParsers: the names that have a parser.
knownParsers == {"Enum", "BlockDataLong", "BlockData", "EndBlockData",
                 "ClassDesc", "Class", "Array", "LongString", "String",
                 "Null", "Object", "Reference"}

\* The tags whose parser registers a handle.
HandleProducing == {"String", "LongString", "Class", "ClassDesc", "Array",
                    "Object", "Enum"}

(***************************************************************************)
(* Maps: a Go map is a sequence of key/value pairs in insertion order, a   *)
(* key occurring once.                                                     *)
(***************************************************************************)
MapHas(m, key) == \E j \in 1..Len(m) : m[j].key = key
MapGet(m, key) ==
    IF MapHas(m, key) THEN m[CHOOSE j \in 1..Len(m) : m[j].key = key].val ELSE Nil
MapPut(m, key, v) ==
    IF MapHas(m, key)
    THEN [j \in 1..Len(m) |-> IF m[j].key = key THEN [key |-> key, val |-> v] ELSE m[j]]
    ELSE Append(m, [key |-> key, val |-> v])

(***************************************************************************)
(* The byte reader.  A read of n bytes at p gives the bytes, or io.EOF     *)
(* when no byte is left, or io.ErrUnexpectedEOF when some but fewer than n *)
(* are left (binary.Read, io.ReadFull); the bytes that were there are      *)
(* consumed.                                                               *)
(***************************************************************************)
\* a variant in which every entry point wraps the source in a bufio.Reader
BufferedAlways == TRUE

Buffered == entry # "ParseSingleObject"

\* The bytes taken from the source so far: the unbuffered parser takes what
\* it reads, and a bufio.Reader as large as the input fills itself with the
\* whole input at its first read.
sourceTaken == IF Buffered THEN (IF pos > 0 THEN Len(input) ELSE 0) ELSE pos

maxDataBlockSize == IF Buffered THEN Len(input) ELSE bufferSize

ReadFull(p, n) ==
    IF Len(input) - p >= n
    THEN [ok |-> TRUE, e |-> "", pos |-> p + n, b |-> SubSeq(input, p + 1, p + n)]
    ELSE IF Len(input) = p
         THEN [ok |-> FALSE, e |-> "EOF", pos |-> p, b |-> <<>>]
         ELSE [ok |-> FALSE, e |-> "UnexpectedEOF", pos |-> Len(input), b |-> <<>>]

Signed(v, half) == IF v >= half THEN v - half - half ELSE v

readUInt8(p) ==
    LET r == ReadFull(p, 1) IN
    [ok |-> r.ok, e |-> r.e, pos |-> r.pos, v |-> IF r.ok THEN r.b[1] ELSE 0]

readInt8(p) ==
    LET r == readUInt8(p) IN [r EXCEPT !.v = Signed(r.v, 128)]

readUInt16(p) ==
    LET r == ReadFull(p, 2) IN
    [ok |-> r.ok, e |-> r.e, pos |-> r.pos,
     v |-> IF r.ok THEN r.b[1] * 256 + r.b[2] ELSE 0]

readInt16(p) ==
    LET r == readUInt16(p) IN [r EXCEPT !.v = Signed(r.v, 32768)]

\* An int32: the top byte is taken as signed, so the value stays in 32 bits.
readInt32(p) ==
    LET r == ReadFull(p, 4) IN
    [ok |-> r.ok, e |-> r.e, pos |-> r.pos,
     v |-> IF r.ok
           THEN Signed(r.b[1], 128) * 16777216 + r.b[2] * 65536 + r.b[3] * 256 + r.b[4]
           ELSE 0]

\* A uint32 as its two 16-bit halves: v = hi * 65536 + lo.
readUInt32(p) ==
    LET r == ReadFull(p, 4) IN
    [ok |-> r.ok, e |-> r.e, pos |-> r.pos,
     hi |-> IF r.ok THEN r.b[1] * 256 + r.b[2] ELSE 0,
     lo |-> IF r.ok THEN r.b[3] * 256 + r.b[4] ELSE 0]

\* int(x) > sop.maxDataBlockSize for a uint32 x given by its halves
ExceedsMax(hi, lo) == hi >= 32768 \/ hi * 65536 + lo > maxDataBlockSize

readRaw(p, n) == ReadFull(p, n)   \* readFloat32, readInt64, readFloat64: the bytes

HexDigit(d) == IF d < 10 THEN 48 + d ELSE 87 + d

\* hex.EncodeToString: two lowercase digits for each byte
EncodeToString(b) ==
    [j \in 1..(2 * Len(b)) |->
        IF j % 2 = 1 THEN HexDigit(b[(j + 1) \div 2] \div 16)
        ELSE HexDigit(b[j \div 2] % 16)]

\* readString reads a string of length cnt bytes.
readString(p, cnt, asHex) ==
    IF cnt > maxDataBlockSize
    THEN [ok |-> FALSE, e |-> "BlockTooLarge", pos |-> p, s |-> <<>>]
    ELSE IF Len(input) - p < cnt      \* io.CopyN: io.EOF after a short copy
    THEN [ok |-> FALSE, e |-> "EOF", pos |-> Len(input), s |-> <<>>]
    ELSE [ok |-> TRUE, e |-> "", pos |-> p + cnt,
          s |-> IF asHex THEN EncodeToString(SubSeq(input, p + 1, p + cnt))
                ELSE SubSeq(input, p + 1, p + cnt)]

\* utf reads a variable length string.
utf(p) ==
    LET r == readUInt16(p) IN
    IF ~r.ok THEN [ok |-> FALSE, e |-> r.e, pos |-> r.pos, s |-> <<>>]
    ELSE readString(r.pos, r.v, FALSE)

\* utfLong reads a large variable length string.
utfLong(p) ==
    LET r1 == readUInt32(p)
        r2 == readUInt32(r1.pos)
    IN  IF ~r1.ok THEN [ok |-> FALSE, e |-> r1.e, pos |-> r1.pos, s |-> <<>>]
        ELSE IF r1.hi # 0 \/ r1.lo # 0
        THEN [ok |-> FALSE, e |-> "StringTooLong", pos |-> r1.pos, s |-> <<>>]
        ELSE IF ~r2.ok THEN [ok |-> FALSE, e |-> r2.e, pos |-> r2.pos, s |-> <<>>]
        ELSE IF r2.hi >= 32768
        THEN [ok |-> FALSE, e |-> "BlockTooLarge", pos |-> r2.pos, s |-> <<>>]
        ELSE readString(r2.pos, r2.hi * 65536 + r2.lo, FALSE)

(***************************************************************************)
(* Errors.  Every caller wraps the error it gets and returns, so an error  *)
(* ends the parse with its cause unchanged; only ParseSerializedObject     *)
(* rewrites a content error whose cause reads "EOF".                       *)
(***************************************************************************)
Error(kind, tag, name) == [kind |-> kind, tag |-> tag, name |-> name]
NoError == Error("", 0, "")
Err(kind) == Error(kind, 0, "")

(***************************************************************************)
(* The call stack.  A frame is one active call: fn the function, pc the    *)
(* segment to run next, and the function's parameters and locals.          *)
(***************************************************************************)
Frame(fn, pc) ==
    [fn |-> fn, pc |-> pc,
     allowed |-> FALSE,    \* content, annotations: allowedNames != nil
     cls |-> 0,            \* address of cls
     obj |-> 0,            \* address of obj / res / data / vals
     idx |-> 0,            \* the slot a deferred handle reserved
     i |-> 0,              \* loop counter
     size |-> 0,           \* loop bound
     prim |-> 0,           \* type code of the primitive handler chosen
     acc |-> <<>>,         \* slice being built (anns, array, cls.fields)
     seen |-> {},          \* seen, the descriptors recursiveClassData visited
     isBlock |-> FALSE]    \* annotationsAsMap's isBlock

Top == stack[Len(stack)]
Pop == SubSeq(stack, 1, Len(stack) - 1)
Running(fn, pc) == status = "run" /\ stack # <<>> /\ Top.fn = fn /\ Top.pc = pc

\* the stack after the running segment calls callee and is to go on at cont
Call(cont, callee) == Pop \o <<cont, callee>>
\* the stack after the running call hands over to another (return f(...))
Become(f) == Pop \o <<f>>

ContentFrame(allowedNames) == [Frame("content", "start") EXCEPT !.allowed = allowedNames]

History(op, arg) ==
    [op |-> op, arg |-> arg, pos |-> pos, nh |-> Len(handles),
     allowed |-> stack # <<>> /\ Top.allowed,
     depth |-> Len(stack)]

\* A step that leaves the parse running.
Step(op, arg, p, h, m, c, s, r) ==
    /\ pos' = p /\ handles' = h /\ maps' = m /\ classes' = c
    /\ stack' = s /\ ret' = r
    /\ last' = History(op, arg)
    /\ UNCHANGED <<input, entry, status, err, out, minimal>>

\* A step that only reads bytes and moves on the stack.
Go(op, arg, p, s, r) == Step(op, arg, p, handles, maps, classes, s, r)

\* The running call returns v to its caller.
Return(op, arg, p, v) == Go(op, arg, p, Pop, v)

\* ParseSerializedObject: a content error whose cause reads "EOF" becomes
\* "premature end of input"; magic and version errors are returned as they are.
TopLevelError(e) ==
    IF Buffered /\ Len(stack) > 1 /\ e.kind = "EOF" THEN Err("PrematureEnd") ELSE e

\* A step that fails: the error travels up through every caller.
FailWith(op, arg, e, p, h, m, c) ==
    /\ pos' = p /\ handles' = h /\ maps' = m /\ classes' = c
    /\ stack' = <<>> /\ ret' = Nil
    /\ status' = "error" /\ err' = TopLevelError(e)
    /\ minimal' = IF Buffered THEN out ELSE minimal
    /\ last' = History(op, arg)
    /\ UNCHANGED <<input, entry, out>>

Fail(op, arg, e, p) == FailWith(op, arg, e, p, handles, maps, classes)

\* A step on which the Go runtime panics (index out of range, nil map write,
\* nil dereference) or kills the process (stack overflow).
Panic(op, arg) ==
    /\ status' = "panic" /\ stack' = <<>> /\ ret' = Nil
    /\ last' = History(op, arg)
    /\ UNCHANGED <<input, entry, pos, handles, maps, classes, err, out, minimal>>

\* newHandle adds a parsed object to the existing indexed handles.
newHandle(h, v) == Append(h, v)

(***************************************************************************)
(* The header.                                                             *)
(***************************************************************************)
\* a variant of end that never sees a next byte
endAlways == TRUE

\* a variant of the magic test that compares the first byte only
BadMagicFirstByte(magicVal) == magicVal \div 256 # streamMagic \div 256

\* magicVal != 0xaced
BadMagic(magicVal) == magicVal # streamMagic
\* ver != protocolVersion
BadVersion(ver) == ver # protocolVersion

\* magic checks for the presence of the STREAM_MAGIC value.
magic ==
    /\ status = "run" /\ stack # <<>> /\ Top.pc = "magic"
    /\ UNCHANGED produced
    /\ LET r == readUInt16(pos) IN
       IF ~r.ok THEN Fail("magic", 0, Err(r.e), r.pos)
       ELSE IF BadMagic(r.v) THEN Fail("magic", r.v, Err("BadMagic"), r.pos)
       ELSE Go("magic", r.v, r.pos, Become([Top EXCEPT !.pc = "version"]), ret)

\* version checks to be sure the serialized object is using a supported protocol version.
version ==
    /\ status = "run" /\ stack # <<>> /\ Top.pc = "version"
    /\ UNCHANGED produced
    /\ LET r == readUInt16(pos) IN
       IF ~r.ok THEN Fail("version", 0, Err(r.e), r.pos)
       ELSE IF BadVersion(r.v) THEN Fail("version", r.v, Err("BadVersion"), r.pos)
       ELSE Go("version", r.v, r.pos, Become([Top EXCEPT !.pc = "content"]), ret)

\* end check has next byte in stream.
end == IF Buffered THEN pos = Len(input) ELSE TRUE

\* ParseSerializedObject, the loop: append the value content returned, then
\* stop at the end of the stream or read the next value.
ParseSerializedObject ==
    /\ status = "run" /\ stack # <<>> /\ Top.fn = "ParseSerializedObject"
    /\ Top.pc \in {"content", "append"}
    /\ UNCHANGED <<produced, input, entry, status, err, minimal>>
    /\ out' = IF Top.pc = "append" THEN Append(out, ret) ELSE out
    /\ pos' = pos /\ handles' = handles /\ maps' = maps /\ classes' = classes
    /\ ret' = Nil
    /\ last' = History("ParseSerializedObject", 0)
    /\ stack' = IF end THEN Become([Top EXCEPT !.pc = "return"])
                ELSE Call([Top EXCEPT !.pc = "append"], ContentFrame(FALSE))

\* ParseSingleObject: one content value after the header.
ParseSingleObject ==
    /\ status = "run" /\ stack # <<>> /\ Top.fn = "ParseSingleObject"
    /\ UNCHANGED <<produced, input, entry, err, minimal>>
    /\ pos' = pos /\ handles' = handles /\ maps' = maps /\ classes' = classes
    /\ ret' = Nil
    /\ \/ /\ Top.pc = "content"
          /\ stack' = Call([Top EXCEPT !.pc = "return"], ContentFrame(FALSE))
          /\ last' = History("ParseSingleObject", 0)
          /\ UNCHANGED <<status, out>>
       \/ /\ Top.pc = "return"
          /\ stack' = <<>> /\ status' = "ok" /\ out' = <<ret>>
          /\ last' = History("ParseSingleObjectReturn", 0)

(***************************************************************************)
(* The tag dispatcher.                                                     *)
(***************************************************************************)
\* tc -= typeMask, in uint8
typeCode(b) == (b - typeMask) % 256

\* a variant of unknownType that prints tc itself
unknownTypeCode(tc) == tc

\* the byte the unknown-type error prints: tc + typeMask, in uint8
unknownType(tc) == (tc + typeMask) % 256

\* a variant of unreadByte that leaves the byte read
unreadByteNever(p) == p

\* br.UnreadByte() on a buffered reader
unreadByte(p) == IF Buffered THEN p - 1 ELSE p

\* content reads the next object in the stream and parses it.
content ==
    /\ Running("content", "start")
    /\ LET r == readUInt8(pos)
           tc == typeCode(r.v)
           name == typeNames[tc + 1]
       IN  IF ~r.ok
           THEN Fail("content", 0 - 1, Err(r.e), r.pos) /\ UNCHANGED produced
           ELSE IF tc > typeNameMax
           THEN /\ Fail("content", r.v, Error("UnknownTag", unknownType(tc), ""),
                        unreadByte(r.pos))
                /\ UNCHANGED produced
           ELSE IF tc + 1 \notin DOMAIN typeNames
           THEN Panic("content", r.v) /\ UNCHANGED produced
           ELSE IF Top.allowed /\ name \notin allowedClazzNames
           THEN /\ Fail("content", r.v, Error("TagNotAllowedHere", r.v, name), r.pos)
                /\ UNCHANGED produced
           ELSE IF name \notin knownParsers
           THEN /\ Fail("content", r.v, Error("Unsupported", r.v, name), r.pos)
                /\ UNCHANGED produced
           ELSE /\ Go("content", r.v, r.pos, Become(Frame(name, "start")), ret)
                /\ produced' = produced + (IF name \in HandleProducing THEN 1 ELSE 0)

(***************************************************************************)
(* The parsers that make no recursive call.                                *)
(***************************************************************************)
parseNull ==
    /\ Running("Null", "start") /\ UNCHANGED produced
    /\ Return("parseNull", 0, pos, Nil)

parseEndBlockData ==
    /\ Running("EndBlockData", "start") /\ UNCHANGED produced
    /\ Return("parseEndBlockData", 0, pos, endBlock)

MinInt32 == 0 - 2147483647 - 1

\* int(refIdx - refIDMask), the subtraction in int32
refIndex(refIdx) ==
    IF refIdx >= MinInt32 + refIDMask THEN refIdx - refIDMask
    ELSE (refIdx - MinInt32) + (2147483647 - refIDMask) + 1

\* a variant of lookup whose lower test is i > 0
lookupAboveZero(h, i) == IF i > 0 /\ i < Len(h) THEN h[i + 1] ELSE Nil

\* if i > -1 && i < len(sop.handles) { ref = sop.handles[i] }
lookup(h, i) == IF i > 0 - 1 /\ i < Len(h) THEN h[i + 1] ELSE Nil

parseReference ==
    /\ Running("Reference", "start") /\ UNCHANGED produced
    /\ LET r == readInt32(pos)
           i == refIndex(r.v)
       IN  IF ~r.ok THEN Fail("parseReference", 0, Err(r.e), r.pos)
           ELSE Return("parseReference", i, r.pos, lookup(handles, i))

parseString ==
    /\ Running("String", "start") /\ UNCHANGED produced
    /\ LET r == utf(pos) IN
       IF ~r.ok THEN Fail("parseString", 0, Err(r.e), r.pos)
       ELSE Step("parseString", Len(r.s), r.pos, newHandle(handles, Str(r.s)),
                 maps, classes, Pop, Str(r.s))

parseLongString ==
    /\ Running("LongString", "start") /\ UNCHANGED produced
    /\ LET r == utfLong(pos) IN
       IF ~r.ok THEN Fail("parseLongString", 0, Err(r.e), r.pos)
       ELSE Step("parseLongString", Len(r.s), r.pos, newHandle(handles, Str(r.s)),
                 maps, classes, Pop, Str(r.s))

parseBlockData ==
    /\ Running("BlockData", "start") /\ UNCHANGED produced
    /\ LET r == readUInt8(pos)
           d == ReadFull(r.pos, r.v)
       IN  IF ~r.ok THEN Fail("parseBlockData", 0, Err(r.e), r.pos)
           ELSE IF ~d.ok THEN Fail("parseBlockData", r.v, Err(d.e), d.pos)
           ELSE Return("parseBlockData", r.v, d.pos, Bytes(d.b))

parseBlockDataLong ==
    /\ Running("BlockDataLong", "start") /\ UNCHANGED produced
    /\ LET r == readUInt32(pos)
           d == ReadFull(r.pos, r.hi * 65536 + r.lo)
       IN  IF ~r.ok THEN Fail("parseBlockDataLong", 0, Err(r.e), r.pos)
           ELSE IF ExceedsMax(r.hi, r.lo)
           THEN Fail("parseBlockDataLong", 0, Err("BlockTooLarge"), r.pos)
           ELSE IF ~d.ok THEN Fail("parseBlockDataLong", r.lo, Err(d.e), d.pos)
           ELSE Return("parseBlockDataLong", r.lo, d.pos, Bytes(d.b))

(***************************************************************************)
(* Class descriptors.                                                      *)
(***************************************************************************)
Clazz(name, uid) ==
    [name |-> name, serialVersionUID |-> uid, flags |-> 0, isEnum |-> FALSE,
     fields |-> <<>>, annotations |-> <<>>, super |-> 0]

\* pkg/errors: "If err is nil, Wrapf returns nil."
Wrapf(e, kind) == IF e = NoError THEN NoError ELSE e

\* classDesc reads a class descriptor.
classDesc ==
    /\ status = "run" /\ stack # <<>> /\ Top.fn = "classDesc"
    /\ UNCHANGED produced
    /\ IF Top.pc = "start"
       THEN Go("classDesc", 0, pos,
               Call([Top EXCEPT !.pc = "return"], ContentFrame(TRUE)), Nil)
       ELSE IF ret.k = "nil" THEN Return("classDescReturn", 0, pos, ClazzV(0))
       ELSE IF ret.k = "clazz" THEN Return("classDescReturn", ret.n, pos, ret)
       ELSE Fail("classDescReturn", 0, Err("ClassDescType"), pos)

\* the calls parseClassDesc makes after the field count is known
NextOfClassDesc(f) ==
    IF f.i < f.size
    THEN Call([f EXCEPT !.pc = "field"], Frame("fieldDesc", "start"))
    ELSE Call([f EXCEPT !.pc = "annotations"], Frame("annotations", "start"))

\* parseClassDesc parses a class descriptor: name, serialVersionUID, the
\* handle, flags and field count.
parseClassDesc ==
    /\ Running("ClassDesc", "start") /\ UNCHANGED produced
    /\ LET r1 == utf(pos)
           e == Wrapf(NoError, "InvalidClassName")
           r2 == readString(r1.pos, serialVersionUIDLength, TRUE)
           a == Len(classes) + 1
           c2 == Append(classes, Clazz(r1.s, r2.s))
           h2 == newHandle(handles, ClazzV(a))
           r3 == readUInt8(r2.pos)
           c3 == [c2 EXCEPT ![a].flags = r3.v,
                            ![a].isEnum = (r3.v \div 16) % 2 = 1]
           r4 == readUInt16(r3.pos)
       IN  IF ~r1.ok THEN Fail("parseClassDesc", 0 - 1, Err(r1.e), r1.pos)
           ELSE IF Len(r1.s) < minClassNameLength
           THEN IF e = NoError THEN Return("parseClassDesc", Len(r1.s), r1.pos, Nil)
                ELSE Fail("parseClassDesc", Len(r1.s), e, r1.pos)
           ELSE IF ~r2.ok THEN Fail("parseClassDesc", Len(r1.s), Err(r2.e), r2.pos)
           ELSE IF ~r3.ok
           THEN FailWith("parseClassDesc", Len(r1.s), Err(r3.e), r3.pos, h2, maps, c2)
           ELSE IF ~r4.ok
           THEN FailWith("parseClassDesc", Len(r1.s), Err(r4.e), r4.pos, h2, maps, c3)
           ELSE Step("parseClassDesc", Len(r1.s), r4.pos, h2, maps, c3,
                     NextOfClassDesc([Top EXCEPT !.cls = a, !.i = 0, !.size = r4.v]),
                     Nil)

\* parseClassDesc, the field loop: cls.fields = append(cls.fields, f)
parseClassDescField ==
    /\ Running("ClassDesc", "field") /\ UNCHANGED produced
    /\ Step("parseClassDescField", Top.i, pos, handles, maps,
            [classes EXCEPT ![Top.cls].fields = Append(@, ret)],
            NextOfClassDesc([Top EXCEPT !.i = @ + 1]), Nil)

\* parseClassDesc: cls.annotations is read, the super is next
parseClassDescAnnotations ==
    /\ Running("ClassDesc", "annotations") /\ UNCHANGED produced
    /\ Step("parseClassDescAnnotations", 0, pos, handles, maps,
            [classes EXCEPT ![Top.cls].annotations = ret.q],
            Call([Top EXCEPT !.pc = "super"], Frame("classDesc", "start")), Nil)

\* parseClassDesc: cls.super is read, x = cls
parseClassDescSuper ==
    /\ Running("ClassDesc", "super") /\ UNCHANGED produced
    /\ Step("parseClassDescSuper", Top.cls, pos, handles, maps,
            [classes EXCEPT ![Top.cls].super = ret.n], Pop, ClazzV(Top.cls))

\* strings.Contains("[L", typeName) for typeName = string(typeDec)
hasClassName(typeDec) == typeDec \in {91, 76}

\* fieldDesc reads a single field descriptor.
fieldDesc ==
    /\ status = "run" /\ stack # <<>> /\ Top.fn = "fieldDesc"
    /\ UNCHANGED produced
    /\ IF Top.pc = "start"
       THEN LET r1 == readUInt8(pos)
                r2 == utf(r1.pos)
            IN  IF ~r1.ok THEN Fail("fieldDesc", 0, Err(r1.e), r1.pos)
                ELSE IF ~r2.ok THEN Fail("fieldDesc", r1.v, Err(r2.e), r2.pos)
                ELSE IF hasClassName(r1.v)
                THEN Go("fieldDesc", r1.v, r2.pos,
                        Call([Top EXCEPT !.pc = "className", !.prim = r1.v, !.acc = r2.s],
                             ContentFrame(FALSE)), Nil)
                ELSE Return("fieldDesc", r1.v, r2.pos, FieldV(r1.v, r2.s, <<>>))
       ELSE IF ret.k = "string"
            THEN Return("fieldDescClassName", Top.prim, pos, FieldV(Top.prim, Top.acc, ret.q))
            ELSE Fail("fieldDescClassName", Top.prim, Err("FieldClassNameType"), pos)

\* annotations reads all class annotations.
annotations ==
    /\ status = "run" /\ stack # <<>> /\ Top.fn = "annotations"
    /\ UNCHANGED produced
    /\ IF Top.pc = "loop" /\ ret = endBlock
       THEN Return("annotationsReturn", Len(Top.acc), pos, Slice(Top.acc))
       ELSE Go("annotations", Len(Top.acc), pos,
               Call([Top EXCEPT !.pc = "loop",
                                !.acc = IF Top.pc = "loop" THEN Append(@, ret) ELSE @],
                    ContentFrame(Top.allowed)), Nil)

parseClass ==
    /\ status = "run" /\ stack # <<>> /\ Top.fn = "Class"
    /\ UNCHANGED produced
    /\ IF Top.pc = "start"
       THEN Go("parseClass", 0, pos,
               Call([Top EXCEPT !.pc = "return"], Frame("classDesc", "start")), Nil)
       ELSE Step("parseClassReturn", ret.n, pos, newHandle(handles, ret), maps,
                 classes, Pop, ret)

(***************************************************************************)
(* Primitive values.                                                       *)
(***************************************************************************)
\* the keys of primitiveHandlers: B C D F I J S Z L [
primitiveHandlers == {66, 67, 68, 70, 73, 74, 83, 90, 76, 91}

\* the handlers that call content: L and [
ContentHandlers == {76, 91}

\* string(rune(charCode)): a surrogate half becomes U+FFFD
RuneOf(charCode) == IF charCode \in 55296..57343 THEN 65533 ELSE charCode

\* primitiveHandlers[t](sop), for the handlers that read bytes
readPrimitive(t, p) ==
    LET raw(r, v) == [ok |-> r.ok, e |-> r.e, pos |-> r.pos, v |-> v] IN
    CASE t = 66 -> LET r == readInt8(p) IN raw(r, Int8(r.v))
      [] t = 67 -> LET r == readUInt16(p) IN raw(r, Char(RuneOf(r.v)))
      [] t = 68 -> LET r == readRaw(p, 8) IN raw(r, Float64(r.b))
      [] t = 70 -> LET r == readRaw(p, 4) IN raw(r, Float32(r.b))
      [] t = 73 -> LET r == readInt32(p) IN raw(r, Int32(r.v))
      [] t = 74 -> LET r == readRaw(p, 8) IN raw(r, Int64(r.b))
      [] t = 83 -> LET r == readInt16(p) IN raw(r, Int16(r.v))
      [] t = 90 -> LET r == readInt8(p) IN raw(r, Bool(r.v # 0))

(***************************************************************************)
(* Arrays and enums.                                                       *)
(***************************************************************************)
\* parseArray: the class descriptor
parseArray ==
    /\ Running("Array", "start") /\ UNCHANGED produced
    /\ Go("parseArray", 0, pos,
          Call([Top EXCEPT !.pc = "class"], Frame("classDesc", "start")), Nil)

\* parseArray: the record, its handle, the size and the element handler
parseArraySize ==
    /\ Running("Array", "class") /\ UNCHANGED produced
    /\ LET cls == ret.n
           res == Len(maps) + 1
           m2 == Append(maps, <<[key |-> KeyClass, val |-> ret]>>)
           h2 == newHandle(handles, MapV(res))
           r == readInt32(pos)
           m3 == [m2 EXCEPT ![res] = MapPut(@, KeyLength, Int32(r.v))]
           name == classes[cls].name
       IN  IF ~r.ok THEN FailWith("parseArraySize", cls, Err(r.e), r.pos, h2, m2, classes)
           ELSE IF cls = 0
           THEN Step("parseArraySize", cls, r.pos, h2, m3, classes, Pop, Nil)
           ELSE IF Len(name) < 2      \* cls.name[1]: index out of range
           THEN Panic("parseArraySize", cls)
           ELSE IF name[2] \notin primitiveHandlers
           THEN FailWith("parseArraySize", cls, Err("UnknownFieldType"), r.pos, h2, m3, classes)
           ELSE Step("parseArraySize", cls, r.pos, h2, m3, classes,
                     Become([Top EXCEPT !.pc = "loop", !.cls = cls, !.obj = res,
                                        !.i = 0, !.size = r.v, !.prim = name[2]]),
                     Nil)

\* a variant of the element loop whose return puts the elements in the handle
parseArrayLoopRegistering ==
    /\ Running("Array", "loop") /\ UNCHANGED produced
    /\ IF Top.i >= Top.size
       THEN Step("parseArrayReturn", Top.obj, pos,
                 [j \in 1..Len(handles) |->
                     IF handles[j] = MapV(Top.obj) THEN Slice(Top.acc) ELSE handles[j]],
                 maps, classes, Pop, Slice(Top.acc))
       ELSE IF Top.prim \in ContentHandlers
       THEN Go("parseArrayLoop", Top.i, pos,
               Call([Top EXCEPT !.pc = "element"], ContentFrame(FALSE)), Nil)
       ELSE LET r == readPrimitive(Top.prim, pos) IN
            IF ~r.ok THEN Fail("parseArrayLoop", Top.i, Err(r.e), r.pos)
            ELSE Go("parseArrayLoop", Top.i, r.pos,
                    Become([Top EXCEPT !.i = @ + 1, !.acc = Append(@, r.v)]), Nil)

\* parseArray: one turn of the element loop
parseArrayLoop ==
    /\ Running("Array", "loop") /\ UNCHANGED produced
    /\ IF Top.i >= Top.size
       THEN Return("parseArrayReturn", Top.obj, pos, Slice(Top.acc))
       ELSE IF Top.prim \in ContentHandlers
       THEN Go("parseArrayLoop", Top.i, pos,
               Call([Top EXCEPT !.pc = "element"], ContentFrame(FALSE)), Nil)
       ELSE LET r == readPrimitive(Top.prim, pos) IN
            IF ~r.ok THEN Fail("parseArrayLoop", Top.i, Err(r.e), r.pos)
            ELSE Go("parseArrayLoop", Top.i, r.pos,
                    Become([Top EXCEPT !.i = @ + 1, !.acc = Append(@, r.v)]), Nil)

\* parseArray: array = append(array, nxt) for an element content read
parseArrayElement ==
    /\ Running("Array", "element") /\ UNCHANGED produced
    /\ Go("parseArrayElement", Top.i, pos,
          Become([Top EXCEPT !.pc = "loop", !.i = @ + 1, !.acc = Append(@, ret)]), Nil)

\* newDeferredHandle reserves an object handle slot.
newDeferredHandle(h) == [idx |-> Len(h), handles |-> Append(h, Nil)]

\* a variant of the deferred function that appends the record
deferredHandleAppend(h, idx, obj) == Append(h, obj)

\* the func newDeferredHandle returns: sop.handles[idx] = obj
deferredHandle(h, idx, obj) == [h EXCEPT ![idx + 1] = obj]

parseEnum ==
    /\ Running("Enum", "start") /\ UNCHANGED produced
    /\ Go("parseEnum", 0, pos,
          Call([Top EXCEPT !.pc = "class"], Frame("classDesc", "start")), Nil)

\* parseEnum: the deferred handle, then the constant
parseEnumClass ==
    /\ Running("Enum", "class") /\ UNCHANGED produced
    /\ LET d == newDeferredHandle(handles) IN
       Step("parseEnumClass", d.idx, pos, d.handles, maps, classes,
            Call([Top EXCEPT !.pc = "constant", !.cls = ret.n, !.idx = d.idx],
                 ContentFrame(FALSE)), Nil)

\* parseEnum: the record fills the slot
parseEnumConstant ==
    /\ Running("Enum", "constant") /\ UNCHANGED produced
    /\ LET res == Len(maps) + 1
           m2 == Append(maps, <<[key |-> KeyValue, val |-> ret],
                                [key |-> KeyClass, val |-> ClazzV(Top.cls)]>>)
       IN  IF Top.idx + 1 \notin DOMAIN handles
           THEN Panic("parseEnumConstant", Top.idx)
           ELSE Step("parseEnumConstant", Top.idx, pos,
                     deferredHandle(handles, Top.idx, MapV(res)), m2, classes,
                     Pop, MapV(res))

(***************************************************************************)
(* Post-processors.  Each takes the heap, the address of fields and the    *)
(* annotations, and gives [ok, e, maps]: fields is changed in place.       *)
(***************************************************************************)
JavaUtilArrayList == <<106, 97, 118, 97, 46, 117, 116, 105, 108, 46, 65, 114, 114, 97, 121, 76, 105, 115, 116>>
JavaUtilArrayDeque == <<106, 97, 118, 97, 46, 117, 116, 105, 108, 46, 65, 114, 114, 97, 121, 68, 101, 113, 117, 101>>
JavaUtilHashtable == <<106, 97, 118, 97, 46, 117, 116, 105, 108, 46, 72, 97, 115, 104, 116, 97, 98, 108, 101>>
JavaUtilHashMap == <<106, 97, 118, 97, 46, 117, 116, 105, 108, 46, 72, 97, 115, 104, 77, 97, 112>>
JavaUtilEnumMap == <<106, 97, 118, 97, 46, 117, 116, 105, 108, 46, 69, 110, 117, 109, 77, 97, 112>>
JavaUtilHashSet == <<106, 97, 118, 97, 46, 117, 116, 105, 108, 46, 72, 97, 115, 104, 83, 101, 116>>
JavaUtilDate == <<106, 97, 118, 97, 46, 117, 116, 105, 108, 46, 68, 97, 116, 101>>

\* KnownPostProcs maps serialized object signatures to PostProc implementations.
KnownPostProcs ==
    <<[sig |-> JavaUtilArrayList \o KeyAt \o EncodeToString(<<120, 129, 210, 29, 153, 199, 97, 157>>),
       proc |-> "listPostProc"],
      [sig |-> JavaUtilArrayDeque \o KeyAt \o EncodeToString(<<32, 124, 218, 46, 36, 13, 160, 139>>),
       proc |-> "listPostProc"],
      [sig |-> JavaUtilHashtable \o KeyAt \o EncodeToString(<<19, 187, 15, 37, 33, 74, 228, 184>>),
       proc |-> "mapPostProc"],
      [sig |-> JavaUtilHashMap \o KeyAt \o EncodeToString(<<5, 7, 218, 193, 195, 22, 96, 209>>),
       proc |-> "mapPostProc"],
      [sig |-> JavaUtilEnumMap \o KeyAt \o EncodeToString(<<6, 93, 125, 247, 190, 144, 124, 161>>),
       proc |-> "enumMapPostProc"],
      [sig |-> JavaUtilHashSet \o KeyAt \o EncodeToString(<<186, 68, 133, 149, 150, 184, 183, 52>>),
       proc |-> "hashSetPostProc"],
      [sig |-> JavaUtilDate \o KeyAt \o EncodeToString(<<104, 106, 129, 1, 75, 89, 116, 25>>),
       proc |-> "datePostProc"]>>

\* a variant of PostProcFor that looks at the class name only
PostProcForName(cls) ==
    LET sig == cls.name \o KeyAt IN
    IF \E j \in 1..Len(KnownPostProcs) :
          SubSeq(KnownPostProcs[j].sig, 1, Len(sig)) = sig
    THEN KnownPostProcs[CHOOSE j \in 1..Len(KnownPostProcs) :
                           SubSeq(KnownPostProcs[j].sig, 1, Len(sig)) = sig].proc
    ELSE ""

\* KnownPostProcs[cls.name+"@"+cls.serialVersionUID], "" when there is none
PostProcFor(cls) ==
    LET sig == cls.name \o KeyAt \o cls.serialVersionUID IN
    IF \E j \in 1..Len(KnownPostProcs) : KnownPostProcs[j].sig = sig
    THEN KnownPostProcs[CHOOSE j \in 1..Len(KnownPostProcs) : KnownPostProcs[j].sig = sig].proc
    ELSE ""

Shape(m) == [ok |-> FALSE, e |-> "UnexpectedShape", maps |-> m]
Done(m) == [ok |-> TRUE, e |-> "", maps |-> m]

\* postProcSize reads the object size as an int32 from the first data element.
postProcSize(data, offset) ==
    IF Len(data) < 1 THEN [ok |-> FALSE, size |-> 0]
    ELSE IF data[1].k # "bytes" THEN [ok |-> FALSE, size |-> 0]
    ELSE IF Len(data[1].q) < offset + 4 THEN [ok |-> FALSE, size |-> 0]
    ELSE LET b == data[1].q IN
         [ok |-> TRUE,
          size |-> Signed(b[offset + 1], 128) * 16777216 + b[offset + 2] * 65536
                   + b[offset + 3] * 256 + b[offset + 4]]

\* a variant of listPostProc that takes data[1:size+1]
listPostProcAll(m, fields, data) ==
    LET s == postProcSize(data, 0) IN
    IF ~s.ok THEN Shape(m)
    ELSE IF Len(data) - 1 # s.size THEN Shape(m)
    ELSE IF s.size > 1
    THEN Done([m EXCEPT ![fields] = MapPut(@, KeyValue, Slice(SubSeq(data, 2, s.size + 1)))])
    ELSE Done([m EXCEPT ![fields] = MapPut(@, KeyValue, Slice(<<>>))])

\* listPostProc populates the object value with a []interface{}.
listPostProc(m, fields, data) ==
    LET s == postProcSize(data, 0) IN
    IF ~s.ok THEN Shape(m)
    ELSE IF Len(data) - 1 # s.size THEN Shape(m)      \* len(data) != size+1
    ELSE IF s.size > 1
    THEN Done([m EXCEPT ![fields] = MapPut(@, KeyValue, Slice(SubSeq(data, 2, s.size)))])
    ELSE Done([m EXCEPT ![fields] = MapPut(@, KeyValue, Slice(<<>>))])

RECURSIVE PutPairs(_, _, _, _)
\* the loop of mapPostProc and enumMapPostProc from pair i on; key(v) gives
\* the string key of v, or <<FALSE>> when v has none
PutPairs(mp, data, i, size) ==
    IF i >= size THEN mp
    ELSE LET k == data[2 * i + 2]
             v == data[2 * i + 3]
         IN  PutPairs(IF k[1] THEN MapPut(mp, k[2], v) ELSE mp, data, i + 1, size)

StringKey(v) == IF v.k = "string" THEN <<TRUE, v.q>> ELSE <<FALSE>>

\* key.(map[string]interface{}) and mk["value"].(string)
EnumKey(m, v) ==
    IF v.k = "map" /\ v.n # 0 /\ MapGet(m[v.n], KeyValue).k = "string"
    THEN <<TRUE, MapGet(m[v.n], KeyValue).q>> ELSE <<FALSE>>

KeyedData(m, data, enum) ==
    [j \in 1..Len(data) |->
        IF j > 1 /\ j % 2 = 0
        THEN (IF enum THEN EnumKey(m, data[j]) ELSE StringKey(data[j]))
        ELSE data[j]]

pairsPostProc(m, fields, data, offset, enum) ==
    LET s == postProcSize(data, offset)
        a == Len(m) + 1
    IN  IF ~s.ok THEN Shape(m)
        \* size*2+1 > len(data), in 64 bits
        ELSE IF s.size > (Len(data) - 1) \div 2 THEN Shape(m)
        ELSE LET mp == PutPairs(<<>>, KeyedData(m, data, enum), 0, s.size)
                 m2 == Append(m, mp)
             IN  Done([m2 EXCEPT ![fields] = MapPut(@, KeyValue, MapV(a))])

\* a variant of mapPostProc that reads the size at offset 0
mapPostProcCapacity(m, fields, data) == pairsPostProc(m, fields, data, 0, FALSE)

\* mapPostProc populates the object value with a map of key/value pairs.
mapPostProc(m, fields, data) == pairsPostProc(m, fields, data, 4, FALSE)

\* enumMapPostProc: the keys are enum constants.
enumMapPostProc(m, fields, data) == pairsPostProc(m, fields, data, 0, TRUE)

RECURSIVE StringSet(_, _, _, _)
\* for idx := range data[1:size] { key := data[idx+1]; ... m[s] = true }
StringSet(acc, data, idx, n) ==
    IF idx >= n THEN acc
    ELSE LET key == data[idx + 2] IN
         StringSet(IF key.k = "string" /\ \A j \in 1..Len(acc) : acc[j] # key.q
                   THEN Append(acc, key.q) ELSE acc,
                   data, idx + 1, n)

\* hashSetPostProc populates the object value with a map[string]bool.
hashSetPostProc(m, fields, data) ==
    LET s == postProcSize(data, 8) IN
    IF ~s.ok THEN Shape(m)
    ELSE IF Len(data) - 1 # s.size THEN Shape(m)      \* len(data) != size+1
    ELSE Done([m EXCEPT ![fields] =
                 MapPut(@, KeyValue,
                        Val("map[string]bool", 0,
                            IF s.size > 1 THEN StringSet(<<>>, data, 0, s.size - 1)
                            ELSE <<>>))])

RECURSIVE MulSmall(_, _, _)
\* b (little-endian bytes) times k plus carry, kept to Len(b) bytes: the
\* product modulo 2^(8*Len(b)), as int64 multiplication wraps
MulSmall(b, k, carry) ==
    IF b = <<>> THEN <<>>
    ELSE LET x == b[1] * k + carry IN
         <<x % 256>> \o MulSmall(Tail(b), k, x \div 256)

Reverse(s) == [j \in 1..Len(s) |-> s[Len(s) + 1 - j]]

\* timestamp*int64(time.Millisecond): the nanoseconds, 8 big-endian bytes
Nanoseconds(b) == Reverse(MulSmall(Reverse(b), 1000000, 0))

\* datePostProc populates the object value with a time.Time.
datePostProc(m, fields, data) ==
    IF Len(data) < 1 THEN Shape(m)
    ELSE IF data[1].k # "bytes" THEN Shape(m)
    ELSE IF Len(data[1].q) < 8 THEN Shape(m)
    ELSE Done([m EXCEPT ![fields] =
                 MapPut(@, KeyValue, Val("time", 0, Nanoseconds(SubSeq(data[1].q, 1, 8))))])

postproc(name, m, fields, data) ==
    CASE name = "listPostProc" -> listPostProc(m, fields, data)
      [] name = "mapPostProc" -> mapPostProc(m, fields, data)
      [] name = "enumMapPostProc" -> enumMapPostProc(m, fields, data)
      [] name = "hashSetPostProc" -> hashSetPostProc(m, fields, data)
      [] name = "datePostProc" -> datePostProc(m, fields, data)

(***************************************************************************)
(* The class-data reader.                                                  *)
(***************************************************************************)
\* values reads primitive field values: one turn of the loop over cls.fields
values ==
    /\ status = "run" /\ stack # <<>> /\ Top.fn = "values"
    /\ Top.pc \in {"start", "loop"}
    /\ UNCHANGED produced
    /\ LET vals == IF Top.pc = "start" THEN Len(maps) + 1 ELSE Top.obj
           m1 == IF Top.pc = "start" THEN Append(maps, <<>>) ELSE maps
           f == [Top EXCEPT !.pc = "loop", !.obj = vals]
           fields == classes[Top.cls].fields
           field == fields[Top.i + 1]
           r == readPrimitive(field.n, pos)
       IN  IF Top.i >= Len(fields)
           THEN Step("valuesReturn", vals, pos, handles, m1, classes, Pop, MapV(vals))
           ELSE IF field.n \notin primitiveHandlers
           THEN FailWith("values", Top.i, Err("UnknownFieldType"), pos, handles, m1, classes)
           ELSE IF field.n \in ContentHandlers
           THEN Step("values", Top.i, pos, handles, m1, classes,
                     Call([f EXCEPT !.pc = "value"], ContentFrame(FALSE)), Nil)
           ELSE IF ~r.ok
           THEN FailWith("values", Top.i, Err(r.e), r.pos, handles, m1, classes)
           ELSE Step("values", Top.i, r.pos, handles,
                     [m1 EXCEPT ![vals] = MapPut(@, field.q, r.v)], classes,
                     Become([f EXCEPT !.i = @ + 1]), Nil)

\* values: vals[field.name] = the value content read
valuesValue ==
    /\ Running("values", "value") /\ UNCHANGED produced
    /\ Step("valuesValue", Top.i, pos, handles,
            [maps EXCEPT ![Top.obj] = MapPut(@, classes[Top.cls].fields[Top.i + 1].q, ret)],
            classes, Become([Top EXCEPT !.pc = "loop", !.i = @ + 1]), Nil)

\* annotationsAsMap reads values (when isBlock is false) and then the annotations
annotationsAsMap ==
    /\ status = "run" /\ stack # <<>> /\ Top.fn = "annotationsAsMap"
    /\ Top.pc \in {"start", "values"}
    /\ UNCHANGED produced
    /\ IF Top.pc = "start" /\ ~Top.isBlock
       THEN Go("annotationsAsMap", 0, pos,
               Call([Top EXCEPT !.pc = "values"],
                    [Frame("values", "start") EXCEPT !.cls = Top.cls]), Nil)
       ELSE LET data == IF Top.pc = "start" THEN Len(maps) + 1 ELSE ret.n
                m1 == IF Top.pc = "start" THEN Append(maps, <<>>) ELSE maps
            IN  Step("annotationsAsMap", 1, pos, handles, m1, classes,
                     Call([Top EXCEPT !.pc = "annotations", !.obj = data],
                          Frame("annotations", "start")), Nil)

\* annotationsAsMap: data["@"] = anns, then any relevant post processor
annotationsAsMapPostProc ==
    /\ Running("annotationsAsMap", "annotations") /\ UNCHANGED produced
    /\ LET data == Top.obj
           m1 == [maps EXCEPT ![data] = MapPut(@, KeyAt, ret)]
           name == IF Top.isBlock THEN "" ELSE PostProcFor(classes[Top.cls])
           r == postproc(name, m1, data, ret.q)
       IN  IF name = ""
           THEN Step("annotationsAsMapPostProc", 0, pos, handles, m1, classes, Pop, MapV(data))
           ELSE IF ~r.ok
           THEN FailWith("annotationsAsMapPostProc", 1, Err(r.e), pos, handles, r.maps, classes)
           ELSE Step("annotationsAsMapPostProc", 1, pos, handles, r.maps, classes,
                     Pop, MapV(data))

\* a variant of the flags test that compares the whole flags byte
flagsByte(flags) == flags

\* cls.flags & 0x0f
flagsNibble(flags) == flags % 16

\* classData reads a serialized class into a generic data structure.
classData ==
    /\ Running("classData", "start") /\ UNCHANGED produced
    /\ LET nibble == flagsNibble(classes[Top.cls].flags)
           f(fn, isBlock) == [Frame(fn, "start") EXCEPT !.cls = Top.cls, !.isBlock = isBlock]
       IN  IF Top.cls = 0 THEN Fail("classData", 0, Err("NilClass"), pos)
           ELSE IF nibble = 2 THEN Go("classData", Top.cls, pos, Become(f("values", FALSE)), Nil)
           ELSE IF nibble = 3
           THEN Go("classData", Top.cls, pos, Become(f("annotationsAsMap", FALSE)), Nil)
           ELSE IF nibble = 4
           THEN Fail("classData", Top.cls, Err("Version1ExternalUnsupported"), pos)
           ELSE IF nibble = 12
           THEN Go("classData", Top.cls, pos, Become(f("annotationsAsMap", TRUE)), Nil)
           ELSE Fail("classData", Top.cls, Err("UnknownClassFlags"), pos)

\* a variant of recursiveClassData with no seen set
recursiveClassDataUnguarded ==
    /\ Running("recursiveClassData", "start") /\ UNCHANGED produced
    /\ LET super == classes[Top.cls].super IN
       IF Top.cls = 0 THEN Return("recursiveClassData", 0, pos, Nil)
       ELSE IF super # 0
       THEN Go("recursiveClassData", Top.cls, pos,
               Call([Top EXCEPT !.pc = "self"],
                    [Frame("recursiveClassData", "start") EXCEPT
                        !.cls = super, !.obj = Top.obj]),
               Nil)
       ELSE Go("recursiveClassData", Top.cls, pos, Become([Top EXCEPT !.pc = "self"]), Nil)

\* recursiveClassData: the super first, unless it was seen
recursiveClassData ==
    /\ Running("recursiveClassData", "start") /\ UNCHANGED produced
    /\ LET super == classes[Top.cls].super
           seen1 == Top.seen \cup {Top.cls}
       IN  IF Top.cls = 0 THEN Return("recursiveClassData", 0, pos, Nil)
           ELSE IF super # 0 /\ super \notin seen1
           THEN Go("recursiveClassData", Top.cls, pos,
                   Call([Top EXCEPT !.pc = "self", !.seen = seen1 \cup {super}],
                        [Frame("recursiveClassData", "start") EXCEPT
                            !.cls = super, !.obj = Top.obj, !.seen = seen1 \cup {super}]),
                   Nil)
           ELSE Go("recursiveClassData", Top.cls, pos,
                   Become([Top EXCEPT !.pc = "self", !.seen = seen1]), Nil)

\* recursiveClassData: obj["extends"] must be a map, then the class's own data
recursiveClassDataSelf ==
    /\ Running("recursiveClassData", "self") /\ UNCHANGED produced
    /\ LET extends == MapGet(maps[Top.obj], KeyExtends) IN
       IF extends.k # "map"
       THEN Fail("recursiveClassDataSelf", Top.cls, Err("ExtendsType"), pos)
       ELSE Go("recursiveClassDataSelf", Top.cls, pos,
               Call([Top EXCEPT !.pc = "fields", !.idx = extends.n],
                    [Frame("classData", "start") EXCEPT !.cls = Top.cls]), Nil)

RECURSIVE Hoist(_, _, _)
\* for name, val := range fields { obj[name] = val }
Hoist(objMap, fields, j) ==
    IF j > Len(fields) THEN objMap
    ELSE Hoist(MapPut(objMap, fields[j].key, fields[j].val), fields, j + 1)

\* recursiveClassData: extends[cls.name] = fields, and the fields hoisted to obj
recursiveClassDataFields ==
    /\ Running("recursiveClassData", "fields") /\ UNCHANGED produced
    /\ LET extends == Top.idx
           m1 == [maps EXCEPT ![extends] = MapPut(@, classes[Top.cls].name, ret)]
           m2 == [m1 EXCEPT ![Top.obj] = Hoist(@, m1[ret.n], 1)]
       IN  IF extends = 0     \* assignment to entry in nil map
           THEN Panic("recursiveClassDataFields", Top.cls)
           ELSE Step("recursiveClassDataFields", Top.cls, pos, handles, m2, classes, Pop, Nil)

parseObject ==
    /\ Running("Object", "start") /\ UNCHANGED produced
    /\ Go("parseObject", 0, pos,
          Call([Top EXCEPT !.pc = "class"], Frame("classDesc", "start")), Nil)

\* parseObject: the skeleton record, the deferred handle, then the class data
parseObjectClass ==
    /\ Running("Object", "class") /\ UNCHANGED produced
    /\ LET extends == Len(maps) + 1
           objMap == Len(maps) + 2
           m2 == maps \o << <<>>,
                            <<[key |-> KeyClass, val |-> ret],
                              [key |-> KeyExtends, val |-> MapV(extends)]>> >>
           d == newDeferredHandle(handles)
       IN  Step("parseObjectClass", d.idx, pos, d.handles, m2, classes,
                Call([Top EXCEPT !.pc = "data", !.cls = ret.n, !.obj = objMap, !.idx = d.idx],
                     [Frame("recursiveClassData", "start") EXCEPT
                         !.cls = ret.n, !.obj = objMap]),
                Nil)

\* parseObject: obj = deferredHandle(objMap)
parseObjectData ==
    /\ Running("Object", "data") /\ UNCHANGED produced
    /\ IF Top.idx + 1 \notin DOMAIN handles
       THEN Panic("parseObjectData", Top.idx)
       ELSE Step("parseObjectData", Top.idx, pos,
                 deferredHandle(handles, Top.idx, MapV(Top.obj)), maps, classes,
                 Pop, MapV(Top.obj))

(***************************************************************************)
(* The minimal representation.  The three functions recurse over the       *)
(* parsed values; a value that contains itself makes them recurse without  *)
(* end, which the Go runtime ends with a fatal stack overflow.             *)
(***************************************************************************)
JsonMap(pairs) == Val("jsonMap", 0, pairs)   \* a map the flattener made

RECURSIVE Endless(_, _, _)
\* jsonFriendlyObject(v) comes back to a map it is already working on
Endless(m, v, path) ==
    IF v.k = "map"
    THEN /\ v.n # 0
         /\ \/ v.n \in path
            \/ \E j \in 1..Len(m[v.n]) :
                  /\ m[v.n][j].key # KeyExtends
                  /\ m[v.n][j].val.k # "clazz"
                  /\ Endless(m, m[v.n][j].val, path \cup {v.n})
    ELSE IF v.k = "slice"
    THEN \E j \in 1..Len(v.q) : Endless(m, v.q[j], path)
    ELSE FALSE

RECURSIVE jsonFriendlyObject(_, _)
RECURSIVE jsonFriendlyPairs(_, _, _)

\* jsonFriendlyArray recursively filters / formats a deserialized array.
jsonFriendlyArray(m, arrayObj) ==
    [idx \in 1..Len(arrayObj) |-> jsonFriendlyObject(m, arrayObj[idx])]

\* the loop of jsonFriendlyMap from pair j on
jsonFriendlyPairs(m, mapObj, j) ==
    IF j > Len(mapObj) THEN <<>>
    ELSE LET k == mapObj[j].key
             v == mapObj[j].val
             rest == jsonFriendlyPairs(m, mapObj, j + 1)
         IN  IF k = KeyExtends THEN rest
             ELSE IF v.k = "clazz" THEN rest
             ELSE <<[key |-> k, val |-> jsonFriendlyObject(m, v)]>> \o rest

\* jsonFriendlyMap recursively filters / formats a deserialized map.
jsonFriendlyMap(m, mapObj) == jsonFriendlyPairs(m, mapObj, 1)

\* a variant of jsonFriendlyObject that promotes a lone "value" only
jsonFriendlyObjectLone(m, obj) ==
    IF obj.k = "map"
    THEN LET jsonMap == jsonFriendlyMap(m, IF obj.n = 0 THEN <<>> ELSE m[obj.n]) IN
         IF MapHas(jsonMap, KeyValue) /\ Len(jsonMap) = 1
         THEN MapGet(jsonMap, KeyValue)
         ELSE JsonMap(jsonMap)
    ELSE IF obj.k = "slice"
    THEN Slice(jsonFriendlyArray(m, obj.q))
    ELSE obj

\* jsonFriendlyObject recursively filters / formats object fields to be as
\* simple / JSON-like as possible.
jsonFriendlyObject(m, obj) ==
    IF obj.k = "map"
    THEN LET jsonMap == jsonFriendlyMap(m, IF obj.n = 0 THEN <<>> ELSE m[obj.n]) IN
         IF MapHas(jsonMap, KeyValue) /\ (MapHas(jsonMap, KeyAt) \/ Len(jsonMap) = 1)
         THEN MapGet(jsonMap, KeyValue)
         ELSE JsonMap(jsonMap)
    ELSE IF obj.k = "slice"
    THEN Slice(jsonFriendlyArray(m, obj.q))
    ELSE obj

\* a variant of ParseSerializedObjectMinimal that flattens the elements of
\* content in place
ParseSerializedObjectMinimalInPlace ==
    /\ Running("ParseSerializedObject", "return") /\ UNCHANGED produced
    /\ IF Endless(maps, Slice(out), {})
       THEN Panic("ParseSerializedObjectMinimal", 0)
       ELSE /\ status' = "ok" /\ stack' = <<>> /\ ret' = Nil
            /\ out' = jsonFriendlyArray(maps, out)
            /\ minimal' = out'
            /\ last' = History("ParseSerializedObjectMinimal", 0)
            /\ UNCHANGED <<input, entry, pos, handles, maps, classes, err>>

\* ParseSerializedObjectMinimal: content = jsonFriendlyArray(content) when
\* ParseSerializedObject returned no error
ParseSerializedObjectMinimal ==
    /\ Running("ParseSerializedObject", "return") /\ UNCHANGED produced
    /\ IF Endless(maps, Slice(out), {})
       THEN Panic("ParseSerializedObjectMinimal", 0)
       ELSE /\ status' = "ok" /\ stack' = <<>> /\ ret' = Nil
            /\ minimal' = jsonFriendlyArray(maps, out)
            /\ last' = History("ParseSerializedObjectMinimal", 0)
            /\ UNCHANGED <<input, entry, pos, handles, maps, classes, err, out>>

(***************************************************************************)
(* The inputs: streams written the way the tests write them (streamHex),   *)
(* every one-tag stream, every short stream over a few bytes, damaged      *)
(* headers, and the one-byte changes and the cuts of the sample streams.   *)
(***************************************************************************)
MaxShortLen == 3
MaxHeaderLen == 5

StreamHeader == <<172, 237, 0, 5>>
U16(n) == <<n \div 256, n % 256>>
UTF(s) == U16(Len(s)) \o s
TcNull == <<112>>
TcEndBlockData == <<120>>
TcReference(i) == <<113, 0, 126>> \o U16(i)
TcString(s) == <<116>> \o UTF(s)
SampleUID == <<0, 0, 0, 0, 0, 0, 0, 1>>
FieldBytes(t, name) == <<t>> \o UTF(name)
TcClassDesc(name, uid, flags, nfields, fields, super) ==
    <<114>> \o UTF(name) \o uid \o <<flags>> \o U16(nfields) \o fields
            \o TcEndBlockData \o super

\* an object whose base class has a field called "extends" holding an
\* object, and whose own field refers to that object
ExtendsFieldStream ==
    StreamHeader \o <<115>>
    \o TcClassDesc(<<68, 68>>, SampleUID, 2, 1,
                   FieldBytes(76, <<120>>) \o TcString(<<65>>),
                   TcClassDesc(<<66, 66>>, SampleUID, 2, 1,
                               FieldBytes(76, KeyExtends) \o TcReference(1),
                               TcNull))
    \o <<115>> \o TcNull
    \o TcReference(4)

\* an object with a string field and a field that refers to the object
\* itself, and after it a reference to the object
SelfReferenceStream ==
    StreamHeader \o <<115>>
    \o TcClassDesc(<<65, 65>>, SampleUID, 2, 2,
                   FieldBytes(76, <<120>>) \o TcString(<<65>>)
                   \o FieldBytes(76, <<121>>) \o TcReference(1),
                   TcNull)
    \o TcString(<<66>>)
    \o TcReference(2)
    \o TcReference(2)

\* an enum constant, then a reference to it
EnumStream ==
    StreamHeader \o <<126>>
    \o TcClassDesc(<<69, 69>>, SampleUID, 18, 0, <<>>, TcNull)
    \o TcString(<<67>>)
    \o TcReference(2)

\* an int array and an object array
ArrayStream ==
    StreamHeader \o <<117>>
    \o TcClassDesc(<<91, 73>>, SampleUID, 2, 0, <<>>, TcNull)
    \o <<0, 0, 0, 1, 0, 0, 0, 7>>
    \o <<117>>
    \o TcClassDesc(<<91, 76>>, SampleUID, 2, 0, <<>>, TcNull)
    \o <<0, 0, 0, 2>> \o TcNull \o TcReference(1)

\* a class, whose descriptor has a primitive field and a super
ClassStream ==
    StreamHeader \o <<118>>
    \o TcClassDesc(<<65, 65>>, SampleUID, 2, 1, FieldBytes(73, <<120>>),
                   TcClassDesc(<<66, 66>>, SampleUID, 2, 0, <<>>, TcNull))

\* a java.util.ArrayList of one string
ArrayListStream ==
    StreamHeader \o <<115>>
    \o TcClassDesc(JavaUtilArrayList, <<120, 129, 210, 29, 153, 199, 97, 157>>, 3, 1,
                   FieldBytes(73, <<115, 105, 122, 101>>), TcNull)
    \o <<0, 0, 0, 1>>
    \o <<119, 4, 0, 0, 0, 1>> \o TcString(<<65>>) \o TcEndBlockData

\* an externalizable object with block data, a long block and a long string
ExternalStream ==
    StreamHeader \o <<115>>
    \o TcClassDesc(<<88, 88>>, SampleUID, 12, 0, <<>>, TcNull)
    \o <<119, 1, 5>> \o TcEndBlockData
    \o <<122, 0, 0, 0, 1, 9>>
    \o <<124, 0, 0, 0, 0, 0, 0, 0, 1, 65>>

\* the wire ids tried after one string was read: the base, the next, the
\* one below the base, zero, -1, the least int32, one that wraps to 0x7FFF0000
ReferenceIds ==
    {<<0, 126, 0, 0>>, <<0, 126, 0, 1>>, <<0, 125, 255, 255>>, <<0, 0, 0, 0>>,
     <<255, 255, 255, 255>>, <<128, 0, 0, 0>>, <<128, 125, 0, 0>>, <<127, 255, 255, 255>>}
ReferenceStreams ==
    {StreamHeader \o TcString(<<65>>) \o <<113>> \o w : w \in ReferenceIds}

\* the class-descriptor positions
ClassDescPositions ==
    {StreamHeader \o <<115>>, StreamHeader \o <<117>>, StreamHeader \o <<118>>,
     StreamHeader \o <<126>>,
     StreamHeader \o <<114>> \o UTF(<<65, 65>>) \o SampleUID \o <<2, 0, 0>> \o TcEndBlockData}
TagStreams ==
    {p \o <<b>> : p \in ClassDescPositions \cup {StreamHeader}, b \in 0..255}

RECURSIVE SeqsUpTo(_, _)
\* the sequences over S of length at most n
SeqsUpTo(S, n) ==
    IF n = 0 THEN {<<>>}
    ELSE LET shorter == SeqsUpTo(S, n - 1) IN
         shorter \cup {Append(s, b) : s \in shorter, b \in S}

\* an object whose class, or the super of its class, has each flags byte
FlagStreams ==
    {StreamHeader \o <<115>> \o TcClassDesc(<<65, 65>>, SampleUID, f, 0, <<>>, TcNull)
        \o TcEndBlockData : f \in 0..255}
    \cup
    {StreamHeader \o <<115>>
        \o TcClassDesc(<<65, 65>>, SampleUID, 2, 0, <<>>,
                       TcClassDesc(<<66, 66>>, SampleUID, f, 0, <<>>, TcNull))
        \o TcEndBlockData : f \in 0..255}

\* an object whose only class has a field called "extends", holding null
ExtendsNullStream ==
    StreamHeader \o <<115>>
    \o TcClassDesc(<<65, 65>>, SampleUID, 2, 1,
                   FieldBytes(76, KeyExtends) \o TcString(<<65>>), TcNull)
    \o TcNull

\* an object whose class and its super both declare a byte field x; the
\* stream holds 1 and then 2
SameFieldStream ==
    StreamHeader \o <<115>>
    \o TcClassDesc(<<68, 68>>, SampleUID, 2, 1, FieldBytes(66, <<120>>),
                   TcClassDesc(<<66, 66>>, SampleUID, 2, 1, FieldBytes(66, <<120>>),
                               TcNull))
    \o <<1, 2>>

\* the same, the super also declaring a field called "extends" that holds
\* an object
SameFieldExtendsStream ==
    StreamHeader \o <<115>>
    \o TcClassDesc(<<68, 68>>, SampleUID, 2, 1, FieldBytes(66, <<120>>),
                   TcClassDesc(<<66, 66>>, SampleUID, 2, 2,
                               FieldBytes(76, KeyExtends) \o TcString(<<65>>)
                               \o FieldBytes(66, <<120>>),
                               TcNull))
    \o <<115>> \o TcNull \o <<1, 2>>

\* TestStringPrematureEnd: "abcdefg" after a String tag, with the length 8
\* and with the one byte 00 in place of the length
StringEndStreams ==
    {StreamHeader \o <<116, 0, 8, 97, 98, 99, 100, 101, 102, 103>>,
     StreamHeader \o <<116, 0, 97, 98, 99, 100, 101, 102, 103>>}

\* blocks and strings that declare more bytes than the stream has: a block
\* of 255, a long block of 7 and of 2^31, a long string of 9 and of 2^32
BlockSizeStreams ==
    {StreamHeader \o <<119, 255>>,
     StreamHeader \o <<122, 0, 0, 0, 7, 1>>,
     StreamHeader \o <<122, 128, 0, 0, 0, 1>>,
     StreamHeader \o <<124, 0, 0, 0, 0, 0, 0, 0, 14, 65>>,
     StreamHeader \o <<124, 0, 0, 0, 1, 0, 0, 0, 0, 65>>}

\* java.util.ArrayList and java.util.ArrayDeque objects that declare n
\* elements and hold count of them
ListElements == <<TcString(<<65>>), TcString(<<66>>), TcString(<<67>>)>>
ListBody(n, count) ==
    <<119, 4, 0, 0, 0, n>>
    \o (IF count > 0 THEN ListElements[1] ELSE <<>>)
    \o (IF count > 1 THEN ListElements[2] ELSE <<>>)
    \o (IF count > 2 THEN ListElements[3] ELSE <<>>)
    \o TcEndBlockData
ListStreams ==
    {StreamHeader \o <<115>>
     \o TcClassDesc(JavaUtilArrayList, <<120, 129, 210, 29, 153, 199, 97, 157>>, 3, 1,
                    FieldBytes(73, <<115, 105, 122, 101>>), TcNull)
     \o <<0, 0, 0, n>> \o ListBody(n, count) : n, count \in 0..3}
    \cup {StreamHeader \o <<115>>
          \o TcClassDesc(JavaUtilArrayDeque, <<32, 124, 218, 46, 36, 13, 160, 139>>, 3, 0,
                         <<>>, TcNull)
          \o ListBody(n, count) : n, count \in 0..3}

RECURSIVE Joined(_)
\* the byte sequences of ss one after the other
Joined(ss) == IF ss = <<>> THEN <<>> ELSE Head(ss) \o Joined(Tail(ss))

\* java.util.HashMap and java.util.Hashtable objects that declare n pairs and
\* hold up to MaxPairElements elements, string and null
MaxPairElements == 4
PairElements == {TcString(<<65>>), TcString(<<66>>), TcNull}
MapBody(n, elems) ==
    <<119, 8, 0, 0, 0, 16, 0, 0, 0, n>> \o Joined(elems) \o TcEndBlockData
MapStreams ==
    {StreamHeader \o <<115>>
     \o TcClassDesc(JavaUtilHashMap, <<5, 7, 218, 193, 195, 22, 96, 209>>, 3, 0, <<>>, TcNull)
     \o MapBody(n, elems) : n \in 0..2, elems \in SeqsUpTo(PairElements, MaxPairElements)}
    \cup {StreamHeader \o <<115>>
          \o TcClassDesc(JavaUtilHashtable, <<19, 187, 15, 37, 33, 74, 228, 184>>, 3, 0,
                         <<>>, TcNull)
          \o MapBody(n, SubSeq(<<TcString(<<65>>), TcString(<<66>>), TcNull, TcString(<<65>>)>>, 1, c))
          : n \in 0..2, c \in 0..4}
          \cup {StreamHeader \o <<115>>
          \o TcClassDesc(JavaUtilHashMap, <<5, 7, 218, 193, 195, 22, 96, 209>>, 3, 0, <<>>, TcNull)
          \o <<119, 8, 0, 0, 0, 16>> \o sz \o TcString(<<65>>) \o TcNull \o TcEndBlockData
          : sz \in {<<255, 255, 255, 255>>, <<127, 255, 255, 255>>, <<128, 0, 0, 0>>, <<0, 0, 1, 0>>}}

\* java.util.HashSet objects that declare n members and hold up to
\* MaxSetElements elements, string and null
MaxSetElements == 3
HashSetStreams ==
    {StreamHeader \o <<115>>
     \o TcClassDesc(JavaUtilHashSet, <<186, 68, 133, 149, 150, 184, 183, 52>>, 3, 0, <<>>, TcNull)
     \o <<119, 12, 0, 0, 0, 16, 63, 64, 0, 0, 0, 0, 0, n>> \o Joined(elems) \o TcEndBlockData
     : n \in 0..3, elems \in SeqsUpTo(PairElements, MaxSetElements)}

\* java.util.Date objects: the timestamp of TestDeserializeDate, the ones
\* around zero, the extremes, and the last and the first whose product
\* with 1000000 leaves 63 bits, on both sides of zero
Timestamps ==
    {<<0, 0, 0, 94, 9, 25, 237, 160>>,
     <<0, 0, 0, 0, 0, 0, 0, 0>>, <<0, 0, 0, 0, 0, 0, 0, 1>>,
     <<255, 255, 255, 255, 255, 255, 255, 255>>,
     <<127, 255, 255, 255, 255, 255, 255, 255>>, <<128, 0, 0, 0, 0, 0, 0, 0>>,
     <<0, 0, 8, 99, 123, 208, 90, 246>>, <<0, 0, 8, 99, 123, 208, 90, 247>>,
     <<255, 255, 247, 156, 132, 47, 165, 10>>, <<255, 255, 247, 156, 132, 47, 165, 9>>}
DateStreams ==
    {StreamHeader \o <<115>>
     \o TcClassDesc(JavaUtilDate, <<104, 106, 129, 1, 75, 89, 116, 25>>, 3, 0, <<>>, TcNull)
     \o <<119, 8>> \o t \o TcEndBlockData : t \in Timestamps}

\* class descriptors whose super position holds a Reference to a descriptor
\* that is still being read: the class itself, or the class below it; as
\* the class of an object with one byte field, and alone
SuperCycleStreams ==
    LET self == TcClassDesc(<<65, 65>>, SampleUID, 2, 1, FieldBytes(66, <<120>>), TcReference(0))
        pair == TcClassDesc(<<65, 65>>, SampleUID, 2, 1, FieldBytes(66, <<120>>),
                            TcClassDesc(<<66, 66>>, SampleUID, 2, 1, FieldBytes(66, <<121>>),
                                        TcReference(0)))
    IN  {StreamHeader \o <<115>> \o self \o <<1>>,
         StreamHeader \o <<115>> \o pair \o <<1, 2>>,
         StreamHeader \o <<115>> \o pair \o <<1, 2>> \o <<115>> \o TcReference(0) \o <<3, 4>>,
         StreamHeader \o self,
         StreamHeader \o <<118>> \o pair}

\* a java.util.ArrayList of one string whose class has the flags of a
\* serializable class without and with a write method and of an
\* externalizable class with block data, with and without the enum bit
RegisteredFlagStreams ==
    LET list(f) == StreamHeader \o <<115>>
                   \o TcClassDesc(JavaUtilArrayList, <<120, 129, 210, 29, 153, 199, 97, 157>>,
                                  f, 1, FieldBytes(73, <<115, 105, 122, 101>>), TcNull)
        anns == <<119, 4, 0, 0, 0, 1>> \o TcString(<<65>>) \o TcEndBlockData
    IN  {list(f) \o <<0, 0, 0, 1>> : f \in {2, 18}}
        \cup {list(f) \o <<0, 0, 0, 1>> \o anns : f \in {3, 19, 243}}
        \cup {list(f) \o anns : f \in {12, 28, 252}}

\* the EndBlockData tag where a value is read: at top level, as the value
\* of an object field, as an element of an object array, as an enum
\* constant, and after the end of an annotation list
EndBlockStreams ==
    {StreamHeader \o TcEndBlockData,
     StreamHeader \o TcString(<<65>>) \o TcEndBlockData \o TcNull,
     StreamHeader \o <<115>>
         \o TcClassDesc(<<65, 65>>, SampleUID, 2, 1,
                        FieldBytes(76, <<120>>) \o TcString(<<65>>), TcNull)
         \o TcEndBlockData,
     StreamHeader \o <<117>>
         \o TcClassDesc(<<91, 76>>, SampleUID, 2, 0, <<>>, TcNull)
         \o <<0, 0, 0, 2>> \o TcNull \o TcEndBlockData,
     StreamHeader \o <<126>>
         \o TcClassDesc(<<69, 69>>, SampleUID, 18, 0, <<>>, TcNull)
         \o TcEndBlockData,
     StreamHeader \o <<115>>
         \o TcClassDesc(<<88, 88>>, SampleUID, 3, 0, <<>>, TcNull)
         \o TcString(<<65>>) \o TcEndBlockData \o TcEndBlockData}

\* some contents with no handle in them, and the values they parse to
SimpleContents ==
    <<[content |-> <<112>>, values |-> <<Nil>>],
      [content |-> <<116, 0, 1, 65>>, values |-> <<Str(<<65>>)>>],
      [content |-> <<119, 1, 5>>, values |-> <<Bytes(<<5>>)>>],
      [content |-> <<112, 120>>, values |-> <<Nil, endBlock>>]>>
SimpleStream(i) == StreamHeader \o SimpleContents[i].content
\* each of them alone, each followed by another with and without its header
JoinedStreams ==
    {SimpleStream(i) : i \in DOMAIN SimpleContents}
    \cup {SimpleStream(i) \o SimpleStream(j) : i, j \in DOMAIN SimpleContents}
    \cup {SimpleStream(i) \o SimpleContents[j].content : i, j \in DOMAIN SimpleContents}

\* single content values, as the bytes after the stream header
FirstValues ==
    {SubSeq(s, 5, Len(s)) :
        s \in {ExtendsFieldStream, ClassStream, ArrayListStream}}
    \* the object of SelfReferenceStream without the reference after it, the
    \* object of ExternalStream without the block and the string after it
    \cup {SubSeq(SelfReferenceStream, 5, Len(SelfReferenceStream) - 5),
          SubSeq(ExternalStream, 5, Len(ExternalStream) - 16)}
    \cup {SimpleContents[i].content : i \in 1..3}
    \cup {<<117>> \o TcClassDesc(<<91, 73>>, SampleUID, 2, 0, <<>>, TcNull)
                  \o <<0, 0, 0, 1, 0, 0, 0, 7>>,
          <<126>> \o TcClassDesc(<<69, 69>>, SampleUID, 18, 0, <<>>, TcNull)
                  \o TcString(<<67>>),
          <<124, 0, 0, 0, 0, 0, 0, 0, 2, 65, 66>>,
          <<122, 0, 0, 0, 3, 7, 8, 9>>}
\* what may follow a value in the source
Trailers ==
    {<<>>, <<112>>, <<0, 0>>, <<116, 0, 1, 65>>, StreamHeader \o <<112>>}
TrailedStreams == {StreamHeader \o v \o t : v \in FirstValues, t \in Trailers}

\* streams taken as they are
WholeStreams ==
    {ExtendsNullStream, SameFieldStream, SameFieldExtendsStream}
    \cup StringEndStreams \cup BlockSizeStreams \cup JoinedStreams \cup ListStreams \cup MapStreams \cup HashSetStreams \cup DateStreams \cup SuperCycleStreams \cup RegisteredFlagStreams \cup EndBlockStreams
    \cup TrailedStreams

ShortBytes == {0, 1, 112, 113, 114, 115, 116, 120}
ShortStreams == {StreamHeader \o s : s \in SeqsUpTo(ShortBytes, MaxShortLen)}
HeaderBytes == {172, 237, 0, 5, 4}
HeaderStreams == SeqsUpTo(HeaderBytes, MaxHeaderLen)

SampleStreams ==
    {ExtendsFieldStream, SelfReferenceStream, EnumStream, ArrayStream, ClassStream,
     ArrayListStream, ExternalStream}
ChangedBytes == {0, 2, 112, 113, 255}
Changed(s) == {[s EXCEPT ![j] = b] : j \in 5..Len(s), b \in ChangedBytes}
Cut(s) == {SubSeq(s, 1, n) : n \in 4..Len(s)}

Inputs ==
    UNION {Changed(s) \cup Cut(s) : s \in SampleStreams}
    \cup ReferenceStreams \cup TagStreams \cup ShortStreams \cup HeaderStreams
    \cup FlagStreams \cup WholeStreams

Entries == {"ParseSerializedObjectMinimal", "ParseSingleObject"}

Init ==
    /\ input \in Inputs
    /\ entry \in Entries
    /\ pos = 0
    /\ handles = <<>> /\ maps = <<>> /\ classes = <<>>
    /\ stack = <<Frame(IF entry = "ParseSingleObject" THEN "ParseSingleObject"
                       ELSE "ParseSerializedObject", "magic")>>
    /\ ret = Nil
    /\ status = "run" /\ err = NoError
    /\ out = <<>> /\ minimal = <<>>
    /\ last = [op |-> "", arg |-> 0, pos |-> 0, nh |-> 0, allowed |-> FALSE, depth |-> 0]
    /\ produced = 0

Next ==
    \/ magic \/ version \/ ParseSerializedObject \/ ParseSingleObject
    \/ ParseSerializedObjectMinimal
    \/ content
    \/ parseNull \/ parseEndBlockData \/ parseReference
    \/ parseString \/ parseLongString \/ parseBlockData \/ parseBlockDataLong
    \/ classDesc
    \/ parseClassDesc \/ parseClassDescField \/ parseClassDescAnnotations
    \/ parseClassDescSuper
    \/ fieldDesc \/ annotations
    \/ parseClass
    \/ parseArray \/ parseArraySize \/ parseArrayLoop \/ parseArrayElement
    \/ parseEnum \/ parseEnumClass \/ parseEnumConstant
    \/ parseObject \/ parseObjectClass \/ parseObjectData
    \/ recursiveClassData \/ recursiveClassDataSelf \/ recursiveClassDataFields
    \/ classData \/ values \/ valuesValue
    \/ annotationsAsMap \/ annotationsAsMapPostProc

Spec == Init /\ [][Next]_vars

\* The parser is one sequential program: it takes its next step as long as
\* it has one.  Its runs are followed to their end on the sample streams and
\* their cuts, the streams with a looping super chain and the streams with
\* sizes above what the input holds.
WalkInputs ==
    SampleStreams \cup UNION {Cut(s) : s \in SampleStreams}
    \cup SuperCycleStreams \cup BlockSizeStreams \cup EndBlockStreams
FairInit == Init /\ input \in WalkInputs
\* reading a class descriptor is the one step a run can take while InDesc,
\* and it can always take it: weak fairness of that step is written with
\* InDesc as its enabling condition
InDesc == Running("ClassDesc", "start")
FairSpec ==
    /\ FairInit /\ [][Next]_vars
    /\ WF_vars(~InDesc /\ Next)
    /\ ([]<>~InDesc \/ []<><<parseClassDesc>>_vars)

(***************************************************************************)
(* Properties.                                                             *)
(***************************************************************************)
Finished == status # "run"
HasHeader == Len(input) >= 4 /\ SubSeq(input, 1, 4) = <<172, 237, 0, 5>>
\* the step just taken was the dispatch of tag byte last.arg
Dispatched == last.op = "content" /\ last.arg >= 0
ValidTag(b) == b >= 112 /\ b <= 126
\* frame f holds a reserved, unfilled handle slot
Reserving(f) ==
    \/ f.fn = "Object" /\ f.pc = "data"
    \/ f.fn = "Enum" /\ f.pc = "constant"

\* C1: Fuzz (the whole-buffer ParseSerializedObjectMinimal) returns on every
\* input: no run ends in a panic or a fatal runtime error.
C1_FuzzNeverCrashes ==
    entry = "ParseSerializedObjectMinimal" => status # "panic"

\* C2: an input whose first four bytes are not AC ED 00 05 ends in an error
\* with no values: BadMagic when the first word is wrong, BadVersion when the
\* magic is right and the second word is not 5; and as long as the header
\* has not passed both checks no content tag is dispatched.
C2_HeaderFirst ==
    ~HasHeader =>
        /\ \A j \in 1..Len(stack) : stack[j].fn # "content"
        /\ last.op \in {"", "magic", "version"}
        /\ produced = 0 /\ handles = <<>> /\ out = <<>> /\ minimal = <<>>
        /\ Finished =>
              /\ status = "error"
              /\ Len(input) >= 2 /\ <<input[1], input[2]>> # <<172, 237>>
                    => err.kind = "BadMagic"
              /\ Len(input) >= 4 /\ <<input[1], input[2]>> = <<172, 237>>
                    => err.kind = "BadVersion"

C2_Witness ==
    /\ status = "error" /\ err.kind = "BadVersion"
    /\ Len(input) > 4 /\ input[1] = 172 /\ input[2] = 237 /\ input[4] = 4

\* C3: after a successful parse the handle table is as long as the number of
\* handle-producing tags (String, LongString, Class, ClassDesc, Array,
\* Object, Enum) read from the stream.
C3_HandlePerTag ==
    status = "ok" => Len(handles) = produced

\* the wire id of the Reference just read, as two 16-bit halves
WireHi == input[last.pos + 1] * 256 + input[last.pos + 2]
WireLo == input[last.pos + 3] * 256 + input[last.pos + 4]
\* 0 <= w - 0x7E0000 < table length (tables here are shorter than 2^16)
WireInRange == WireHi = 126 /\ WireLo < Len(handles)

\* C4: a Reference whose four id bytes are there consumes exactly those
\* bytes, does not fail, leaves the table's length alone and yields the
\* entry at index w - 0x7E0000 when that is inside the table, null otherwise.
C4_Reference ==
    (last.op = "parseReference" /\ Len(input) >= last.pos + 4) =>
        /\ status = "run"
        /\ pos = last.pos + 4
        /\ Len(handles) = last.nh
        /\ ret = IF WireInRange THEN handles[WireLo + 1] ELSE Nil

C4_Witness ==
    /\ last.op = "parseReference" /\ status = "run"
    /\ WireInRange /\ WireLo = 0 /\ ret.k = "string"

\* C5: while an Object's fields are read, a Reference to the object's own
\* handle yields the object's record.
C5_SelfReference ==
    \A j \in 1..Len(stack) :
        (/\ last.op = "parseReference" /\ status = "run"
         /\ stack[j].fn = "Object" /\ stack[j].pc = "data"
         /\ last.arg = stack[j].idx)
        => ret = MapV(stack[j].obj)

RECURSIVE Chain(_, _)
\* the descriptors reached from c by super, c included
Chain(c, seen) ==
    IF c = 0 \/ c \in seen THEN seen ELSE Chain(classes[c].super, seen \cup {c})

\* C6, on reserving: the slot of an Object or Enum is the table length right
\* after its class descriptor was read, and the table grows by that slot.
C6_Reserved ==
    last.op \in {"parseObjectClass", "parseEnumClass"} =>
        /\ last.arg = last.nh /\ Len(handles) = last.nh + 1
        /\ stack[last.depth].idx = last.nh /\ Reserving(stack[last.depth])

\* C6, while the fields or the constant are read: the slot is above every
\* descriptor of the class's chain, below the slot of every record begun
\* later, and still empty.
C6_Reading ==
    \A j \in 1..Len(stack) :
        Reserving(stack[j]) =>
            /\ stack[j].idx < Len(handles) /\ handles[stack[j].idx + 1] = Nil
            /\ \A i \in 1..Len(handles) :
                  (handles[i].k = "clazz" /\ handles[i].n \in Chain(stack[j].cls, {}))
                  => i - 1 < stack[j].idx
            /\ \A k \in (j + 1)..Len(stack) :
                  Reserving(stack[k]) => stack[j].idx < stack[k].idx

\* C6, on return: the slot holds the record returned.
C6_Filled ==
    (last.op \in {"parseObjectData", "parseEnumConstant"} /\ status = "run") =>
        /\ ret.k = "map" /\ ret.n # 0
        /\ last.arg < Len(handles) /\ handles[last.arg + 1] = ret
        /\ Len(handles) = last.nh

\* C6, the fill: it writes the slot and no other entry.
C6_FillOnly ==
    (last'.op \in {"parseObjectData", "parseEnumConstant"} /\ status' = "run") =>
        /\ Len(handles') = Len(handles)
        /\ \A i \in 1..Len(handles) : i # last'.arg + 1 => handles'[i] = handles[i]

\* C6: handles are assigned in stream order; an Object's or Enum's slot is
\* reserved right after its class descriptor, lies between the descriptors
\* before it and the handles made while it is read, and is filled with the
\* completed record without touching another entry.
C6_StreamOrder ==
    [](C6_Reserved /\ C6_Reading /\ C6_Filled) /\ [][C6_FillOnly]_vars

C6_Witness ==
    /\ last.op = "parseObjectData" /\ status = "run"
    /\ last.arg > 0 /\ last.arg + 1 < Len(handles)
    /\ handles[last.arg + 1] = ret

\* C7: a ClassDesc whose name has length 0 or 1 fails with InvalidClassName.
C7_InvalidClassName ==
    (last.op = "parseClassDesc" /\ last.arg \in {0, 1}) =>
        status = "error" /\ err.kind = "InvalidClassName"

\* C8: a tag byte outside 0x70..0x7E fails with UnknownTag reporting that
\* byte; a tag byte inside chooses entry b - 0x70 of typeNames.
C8_TagRange ==
    Dispatched =>
        IF ValidTag(last.arg)
        THEN IF status = "error"
             THEN /\ err.kind \in {"TagNotAllowedHere", "Unsupported"}
                  /\ err.name = typeNames[last.arg - 112 + 1]
             ELSE status = "run" /\ Top.fn = typeNames[last.arg - 112 + 1]
        ELSE status = "error" /\ err.kind = "UnknownTag" /\ err.tag = last.arg

C8_Witness ==
    /\ Dispatched /\ last.arg = 111
    /\ status = "error" /\ err.kind = "UnknownTag" /\ err.tag = 111

\* C9: Reset, Exception and ProxyClassDesc never parse: the dispatch fails,
\* with Unsupported naming the tag where the position permits the tag, and
\* adds no handle.
C9_Unsupported ==
    (Dispatched /\ last.arg \in {121, 123, 125}) =>
        /\ status = "error"
        /\ Len(handles) = last.nh
        /\ (~last.allowed \/ last.arg = 125) =>
              /\ err.kind = "Unsupported"
              /\ err.name = CASE last.arg = 121 -> "Reset"
                              [] last.arg = 123 -> "Exception"
                              [] last.arg = 125 -> "ProxyClassDesc"

C9_Witness ==
    /\ Dispatched /\ last.arg = 125 /\ last.allowed
    /\ status = "error" /\ err.kind = "Unsupported"

\* C10: the content read for a class descriptor (the class of an Object,
\* Array, Enum or Class, the super of a ClassDesc) carries the allow-list;
\* there a tag out of range fails with UnknownTag, and a valid tag other
\* than ClassDesc, ProxyClassDesc, Null and Reference fails with
\* TagNotAllowedHere, Reset and Exception included, with the table unchanged.
C10_NotAllowedHere ==
    /\ \A j \in 1..Len(stack) :
          stack[j].fn = "classDesc" =>
              /\ j > 1
              /\ stack[j - 1].fn \in {"Object", "Array", "Enum", "Class", "ClassDesc"}
              /\ (j < Len(stack) /\ stack[j + 1].fn = "content")
                    => stack[j + 1].allowed
    /\ (Dispatched /\ last.allowed) =>
          /\ ~ValidTag(last.arg) => status = "error" /\ err.kind = "UnknownTag"
          /\ (ValidTag(last.arg) /\ last.arg \notin {112, 113, 114, 125}) =>
                /\ status = "error" /\ err.kind = "TagNotAllowedHere"
                /\ stack = <<>> /\ Len(handles) = last.nh

C10_Witness ==
    /\ Dispatched /\ last.allowed /\ last.arg = 116 /\ last.nh > 0
    /\ status = "error" /\ err.kind = "TagNotAllowedHere"


\* C11: the low four bits of the flags alone choose how a class's data is
\* read: 0x04 fails with Version1ExternalUnsupported, anything but 0x02,
\* 0x03, 0x04, 0x0C fails with UnknownClassFlags, and the parse fails with it.
C11_ClassFlags ==
    (last.op = "classData" /\ last.arg # 0) =>
        LET low == classes[last.arg].flags % 16 IN
        /\ low = 4 => status = "error" /\ err.kind = "Version1ExternalUnsupported"
        /\ low \notin {2, 3, 4, 12} => status = "error" /\ err.kind = "UnknownClassFlags"
        /\ low \in {2, 3, 12} =>
              /\ status = "run" /\ Top.cls = last.arg
              /\ Top.fn = IF low = 2 THEN "values" ELSE "annotationsAsMap"
              /\ Top.isBlock = (low = 12)

\* flags 0xF4: the upper bits set, the low nibble 0x04, in the super
C11_Witness ==
    /\ last.op = "classData" /\ last.arg = 2 /\ classes[2].flags = 244
    /\ status = "error" /\ err.kind = "Version1ExternalUnsupported"


\* the names of the classes of a set of descriptors
NamesOf(cs) == {classes[c].name : c \in cs}
\* the keys of a record
KeysOf(m) == {m[j].key : j \in 1..Len(m)}
\* the record just returned by the Object handler
ObjectReturned == last.op = "parseObjectData" /\ status = "run" /\ ret.k = "map"
\* rec is a record read for class c: a map that has c's fields when the
\* class's flags say that fields are read
RecordOf(rec, c) ==
    /\ rec.k = "map" /\ rec.n # 0
    /\ classes[c].flags % 16 \in {2, 3} =>
          \A j \in 1..Len(classes[c].fields) :
              MapHas(maps[rec.n], classes[c].fields[j].q)

\* C12: the extends of a parsed Object is a mapping with exactly one entry
\* per class of the chain of the object's class, keyed by the class's name,
\* each entry the record read for that class.
C12_ExtendsPerClass ==
    ObjectReturned =>
        LET o == maps[ret.n]
            ext == MapGet(o, KeyExtends)
            chain == Chain(MapGet(o, KeyClass).n, {})
        IN  /\ ext.k = "map" /\ ext.n # 0
            /\ Len(maps[ext.n]) = Cardinality(chain)
            /\ KeysOf(maps[ext.n]) = NamesOf(chain)
            /\ \A c \in chain : RecordOf(MapGet(maps[ext.n], classes[c].name), c)


\* no class of the chain is reached twice and no two have the same name
PlainChain(c) ==
    /\ \A d \in Chain(c, {}) : d \notin Chain(classes[d].super, {})
    /\ Cardinality(NamesOf(Chain(c, {}))) = Cardinality(Chain(c, {}))
\* class c declares a field called name
Declares(c, name) == \E j \in 1..Len(classes[c].fields) : classes[c].fields[j].q = name

RECURSIVE Deepest(_, _, _)
\* the most derived class from c upwards that declares name, 0 if none does
Deepest(c, name, seen) ==
    IF c = 0 \/ c \in seen THEN 0
    ELSE IF Declares(c, name) THEN c
    ELSE Deepest(classes[c].super, name, seen \cup {c})

\* C13, the order: when the data of class c of an object is about to be
\* read, the records of all of c's ancestors are in extends and c's is not
\* (seen where no field has taken the place of extends).
C13_RootFirst ==
    (/\ last.op = "classData" /\ status = "run" /\ last.arg # 0
     /\ PlainChain(last.arg)
     /\ \A a \in Chain(last.arg, {}) : ~Declares(a, KeyExtends)) =>
        LET f == stack[last.depth - 1] IN
        /\ f.fn = "recursiveClassData" /\ f.pc = "fields" /\ f.cls = last.arg
        /\ \A a \in Chain(classes[last.arg].super, {}) :
              MapHas(maps[MapGet(maps[f.obj], KeyExtends).n], classes[a].name)
        /\ ~MapHas(maps[MapGet(maps[f.obj], KeyExtends).n], classes[last.arg].name)

\* C13, the result: for a field that a class and a more derived class of the
\* chain both declare, extends has the records of both, each with its own
\* value, and the flat record has the value of the most derived.
C13_Collision ==
    (ObjectReturned /\ PlainChain(MapGet(maps[ret.n], KeyClass).n)) =>
        LET o == maps[ret.n]
            top == MapGet(o, KeyClass).n
            ext == MapGet(o, KeyExtends)
        IN  \A c \in Chain(top, {}) :
                classes[c].flags % 16 \in {2, 3} =>
                    \A j \in 1..Len(classes[c].fields) :
                        LET name == classes[c].fields[j].q
                            d == Deepest(top, name, {})
                        IN  d # c =>
                            /\ ext.k = "map" /\ ext.n # 0
                            /\ RecordOf(MapGet(maps[ext.n], classes[c].name), c)
                            /\ RecordOf(MapGet(maps[ext.n], classes[d].name), d)
                            /\ MapGet(o, name)
                                 = MapGet(maps[MapGet(maps[ext.n], classes[d].name).n], name)

\* C13: class data is read root-first, and where two classes of the chain
\* declare the same field name the flat record holds the most derived
\* class's value while extends keeps each ancestor's own.
C13_Inherited == C13_RootFirst /\ C13_Collision


\* the 16-bit length a String tag declares, read from the input
DeclaredLength == input[last.pos + 1] * 256 + input[last.pos + 2]

\* C14: a String tag whose declared length is larger than the number of
\* bytes left in the input makes ParseSerializedObjectMinimal fail with
\* "premature end of input", whatever the length and the buffer's size.
C14_StringPrematureEnd ==
    (/\ entry = "ParseSerializedObjectMinimal"
     /\ last.op = "parseString" /\ Len(input) >= last.pos + 2
     /\ DeclaredLength > Len(input) - (last.pos + 2)) =>
        status = "error" /\ err.kind = "PrematureEnd"


\* maxDataBlockSize as the entry points set it
BlockLimit == IF entry = "ParseSingleObject" THEN 1024 ELSE Len(input)
\* the n bytes after the tag are there
PrefixRead(n) == Len(input) >= last.pos + n
\* the 16-bit number at bytes j, j+1 after the tag
Word(j) == input[last.pos + j] * 256 + input[last.pos + j + 1]
\* the 32-bit number at bytes j..j+3 after the tag is above the limit
LongAbove(j) == Word(j) > 0 \/ Word(j + 2) > BlockLimit
\* the read was refused with n bytes of length consumed and no more
Refused(n) == status = "error" /\ err.kind = "BlockTooLarge" /\ pos = last.pos + n

\* C15: a String, LongString, BlockData or BlockDataLong whose declared
\* length is above maxDataBlockSize, and the 8-byte serialVersionUID read
\* when 8 is above it, fail with BlockTooLarge with no payload byte consumed.
C15_BlockTooLarge ==
    /\ (last.op = "parseString" /\ PrefixRead(2) /\ Word(1) > BlockLimit) => Refused(2)
    /\ (last.op = "parseLongString" /\ PrefixRead(8) /\ Word(1) = 0 /\ Word(3) = 0
        /\ LongAbove(5)) => Refused(8)
    /\ (last.op = "parseBlockData" /\ PrefixRead(1) /\ input[last.pos + 1] > BlockLimit)
          => Refused(1)
    /\ (last.op = "parseBlockDataLong" /\ PrefixRead(4) /\ LongAbove(1)) => Refused(4)
    /\ (last.op = "parseClassDesc" /\ last.arg >= 2 /\ 8 > BlockLimit)
          => Refused(2 + last.arg)


\* the whole-buffer parse of the input has returned
Parsed == entry = "ParseSerializedObjectMinimal" /\ Finished
\* each simple stream is a valid complete stream with the values listed
SimpleParsed ==
    \A i \in DOMAIN SimpleContents :
        input = SimpleStream(i) => status = "ok" /\ out = SimpleContents[i].values

\* C16: for valid complete streams P and Q, parsing P followed by Q succeeds
\* and yields the values of P followed by the values of Q.
C16_Concatenation ==
    Parsed =>
        /\ SimpleParsed
        /\ \A i, j \in DOMAIN SimpleContents :
              input = SimpleStream(i) \o SimpleStream(j) =>
                  /\ status = "ok"
                  /\ out = SimpleContents[i].values \o SimpleContents[j].values

\* C16 as the program has it: a stream has one header.  P followed by Q
\* fails with UnknownTag at the first byte of Q's header (0xAC), which is
\* left unread, with the values of P read; P followed by the contents of Q
\* without Q's header yields the values of P followed by the values of Q.
C16_OneHeader ==
    Parsed =>
        /\ SimpleParsed
        /\ \A i, j \in DOMAIN SimpleContents :
              /\ input = SimpleStream(i) \o SimpleStream(j) =>
                    /\ status = "error" /\ err.kind = "UnknownTag" /\ err.tag = 172
                    /\ out = SimpleContents[i].values
                    /\ pos = Len(SimpleStream(i))
              /\ input = SimpleStream(i) \o SimpleContents[j].content =>
                    /\ status = "ok"
                    /\ out = SimpleContents[i].values \o SimpleContents[j].values

C16_Witness ==
    /\ Parsed /\ input = SimpleStream(2) \o SimpleStream(3)
    /\ status = "error" /\ err.tag = 172 /\ out = <<Str(<<65>>)>>


\* the flattening of the values returned has been done
Flattened == status = "ok" /\ last.op = "ParseSerializedObjectMinimal"
\* the pairs of the keyed record v
PairsOf(v) == IF v.n = 0 THEN <<>> ELSE maps[v.n]
\* the keys of the keyed record v that flattening keeps
KeptKeys(v) ==
    {p.key : p \in {PairsOf(v)[j] : j \in 1..Len(PairsOf(v))}} \ 
        ({KeyExtends} \cup {PairsOf(v)[j].key : j \in {i \in 1..Len(PairsOf(v)) : PairsOf(v)[i].val.k = "clazz"}})
\* the kept keys make the record stand for its `value`
Promoted(v) ==
    \/ KeptKeys(v) = {KeyValue}
    \/ {KeyValue, KeyAt} \subseteq KeptKeys(v)

RECURSIVE FlatOf(_, _)
\* r is what the flattening rule gives for v
FlatOf(v, r) ==
    IF v.k = "map"
    THEN IF Promoted(v)
         THEN FlatOf(MapGet(PairsOf(v), KeyValue), r)
         ELSE /\ r.k = "jsonMap"
              /\ {r.q[j].key : j \in 1..Len(r.q)} = KeptKeys(v)
              /\ Len(r.q) = Cardinality(KeptKeys(v))
              /\ \A j \in 1..Len(r.q) : FlatOf(MapGet(PairsOf(v), r.q[j].key), r.q[j].val)
    ELSE IF v.k = "slice"
    THEN /\ r.k = "slice" /\ Len(r.q) = Len(v.q)
         /\ \A j \in 1..Len(v.q) : FlatOf(v.q[j], r.q[j])
    ELSE r = v

\* C17: flattening a keyed record gives the record without its `extends` key
\* and without the entries whose value is a class descriptor, each value left
\* flattened in turn; when `value` is the only key left, or `value` and `@`
\* are both left, it gives the flattened `value` in place of the record.
C17_Flatten ==
    Flattened =>
        /\ Len(minimal) = Len(out)
        /\ \A idx \in 1..Len(out) : FlatOf(out[idx], minimal[idx])

C17_Witness ==
    /\ Flattened /\ Len(out) = 1 /\ out[1].k = "map"
    /\ {KeyValue, KeyAt} \subseteq KeptKeys(out[1])
    /\ Cardinality(KeptKeys(out[1])) > 2
    /\ KeyExtends \in {PairsOf(out[1])[j].key : j \in 1..Len(PairsOf(out[1]))}
    /\ minimal[1].k = "slice"


RECURSIVE ClassInfoIn(_)
\* a class descriptor or an `extends` key occurs in the flattened value r
ClassInfoIn(r) ==
    \/ r.k = "clazz"
    \/ /\ r.k = "jsonMap"
       /\ \E j \in 1..Len(r.q) : r.q[j].key = KeyExtends \/ ClassInfoIn(r.q[j].val)
    \/ /\ r.k \in {"slice", "map"}
       /\ \E j \in 1..Len(r.q) : ClassInfoIn(r.q[j])

\* C18: what ParseSerializedObjectMinimal returns for an input that parses
\* holds no class descriptor and no `extends` key at any depth.
C18_NoClassInfo ==
    Flattened => \A idx \in 1..Len(minimal) : ~ClassInfoIn(minimal[idx])


\* the step that flattens the values parsed leaves the values, the records
\* they hold, the handles and the class descriptors as they were
FlattenFrame ==
    last'.op = "ParseSerializedObjectMinimal" =>
        /\ out' = out /\ maps' = maps
        /\ handles' = handles /\ classes' = classes

ListRead ==
    /\ Running("annotationsAsMap", "annotations") /\ ~Top.isBlock
    /\ LET cls == classes[Top.cls] IN
       \/ /\ cls.name = JavaUtilArrayList
          /\ cls.serialVersionUID = EncodeToString(<<120, 129, 210, 29, 153, 199, 97, 157>>)
       \/ /\ cls.name = JavaUtilArrayDeque
          /\ cls.serialVersionUID = EncodeToString(<<32, 124, 218, 46, 36, 13, 160, 139>>)
    /\ Len(ret.q) >= 1 /\ ret.q[1].k = "bytes" /\ Len(ret.q[1].q) >= 4
\* the size the first annotation holds, big-endian and signed
ListSize ==
    LET b == ret.q[1].q IN
    (IF b[1] >= 128 THEN b[1] - 256 ELSE b[1]) * 16777216 + b[2] * 65536 + b[3] * 256 + b[4]
\* the annotation elements at indices 1..n-1
ListValue(n) == IF n <= 1 THEN <<>> ELSE [i \in 1..(n - 1) |-> ret.q[i + 1]]
ListProcessed ==
    ListRead =>
        IF Len(ret.q) - 1 # ListSize
        THEN status' = "error" /\ err'.kind = "UnexpectedShape"
        ELSE /\ status' = "run" /\ ret'.k = "map" /\ ret'.n = Top.obj
             /\ MapGet(maps'[ret'.n], KeyValue) = Slice(ListValue(ListSize))

\* C20: for java.util.ArrayList and java.util.ArrayDeque whose first
\* annotation holds the four-byte size n: when the number of annotation
\* elements after the first is not n the parse fails with UnexpectedShape;
\* otherwise `value` is the annotation elements at indices 1..n-1 in stream
\* order, and the empty sequence when n <= 1.
C20_ListValue == [][ListProcessed]_vars

C20_Witness ==
    /\ last.op = "annotationsAsMapPostProc" /\ last.arg = 1 /\ status = "run"
    /\ ret.k = "map"
    /\ Len(MapGet(maps[ret.n], KeyAt).q) = 3
    /\ MapGet(maps[ret.n], KeyValue) = Slice(<<Str(<<65>>)>>)


\* annotationsAsMap has read the annotations of an object of class
\* name@uid, the first of which is a blob of at least n bytes
AnnotationsRead(name, uid, n) ==
    /\ Running("annotationsAsMap", "annotations") /\ ~Top.isBlock
    /\ classes[Top.cls].name = name
    /\ classes[Top.cls].serialVersionUID = EncodeToString(uid)
    /\ Len(ret.q) >= 1 /\ ret.q[1].k = "bytes" /\ Len(ret.q[1].q) >= n
\* the big-endian signed 32-bit integer at offset of the first annotation
SizeAt(offset) ==
    LET b == ret.q[1].q IN
    (IF b[offset + 1] >= 128 THEN b[offset + 1] - 256 ELSE b[offset + 1]) * 16777216
    + b[offset + 2] * 65536 + b[offset + 3] * 256 + b[offset + 4]
MapRead ==
    \/ AnnotationsRead(JavaUtilHashMap, <<5, 7, 218, 193, 195, 22, 96, 209>>, 8)
    \/ AnnotationsRead(JavaUtilHashtable, <<19, 187, 15, 37, 33, 74, 228, 184>>, 8)
\* the pairs among the first n whose key is a string
StringPairs(n) == {i \in 1..n : ret.q[2 * i].k = "string"}
\* mp takes the string key of each of the first n pairs to the value of
\* the pair (of the last such pair, when a key comes twice)
MapOfPairs(mp, n) ==
    /\ {mp[j].key : j \in 1..Len(mp)} = {ret.q[2 * i].q : i \in StringPairs(n)}
    /\ Len(mp) = Cardinality({ret.q[2 * i].q : i \in StringPairs(n)})
    /\ \A i \in StringPairs(n) :
          (\A j \in StringPairs(n) : j > i => ret.q[2 * j].q # ret.q[2 * i].q)
              => MapGet(mp, ret.q[2 * i].q) = ret.q[2 * i + 1]
MapProcessed ==
    MapRead =>
        IF SizeAt(4) > (Len(ret.q) - 1) \div 2     \* fewer than 2n elements
        THEN status' = "error" /\ err'.kind = "UnexpectedShape"
        ELSE /\ status' = "run" /\ ret'.k = "map" /\ ret'.n = Top.obj
             /\ LET v == MapGet(maps'[ret'.n], KeyValue) IN
                /\ v.k = "map" /\ v.n \in 1..Len(maps') /\ v.n \notin 1..Len(maps)
                /\ MapOfPairs(maps'[v.n], IF SizeAt(4) < 0 THEN 0 ELSE SizeAt(4))

\* C21: for java.util.HashMap and java.util.Hashtable whose first annotation
\* holds the size n at bytes 4..8: `value` is the mapping that takes the key
\* of each of the n pairs after the blob whose key is a string to the value
\* of the pair, pairs with another key are dropped with no error, and fewer
\* than 2n elements after the blob fail with UnexpectedShape.
C21_MapValue == [][MapProcessed]_vars

C21_Witness ==
    /\ last.op = "annotationsAsMapPostProc" /\ last.arg = 1 /\ status = "run"
    /\ ret.k = "map"
    /\ \E j \in 1..Len(classes) : classes[j].name = JavaUtilHashMap
    /\ Len(MapGet(maps[ret.n], KeyAt).q) = 5
    /\ MapGet(maps[ret.n], KeyAt).q[2] = Nil
    /\ MapGet(maps[ret.n], KeyAt).q[4] = Str(<<66>>)
    /\ MapGet(maps[ret.n], KeyValue).k = "map"
    /\ maps[MapGet(maps[ret.n], KeyValue).n] = <<[key |-> <<66>>, val |-> Str(<<65>>)]>>


SetRead == AnnotationsRead(JavaUtilHashSet, <<186, 68, 133, 149, 150, 184, 183, 52>>, 12)
\* the strings among the n elements after the blob
StringMembers(n) == {ret.q[i + 1].q : i \in {j \in 1..n : ret.q[j + 1].k = "string"}}
SetProcessed ==
    SetRead =>
        IF Len(ret.q) - 1 # SizeAt(8)
        THEN status' = "error" /\ err'.kind = "UnexpectedShape"
        ELSE /\ status' = "run" /\ ret'.k = "map" /\ ret'.n = Top.obj
             /\ LET v == MapGet(maps'[ret'.n], KeyValue) IN
                /\ v.k = "map[string]bool"
                /\ {v.q[j] : j \in 1..Len(v.q)} = StringMembers(SizeAt(8))

\* C22: for java.util.HashSet whose first annotation holds the size n at
\* bytes 8..12: when the number of annotation elements after the blob is not
\* n the parse fails with UnexpectedShape; otherwise `value` is the set of
\* all of the n following elements that are strings.
C22_SetValue == [][SetProcessed]_vars


DateRead == AnnotationsRead(JavaUtilDate, <<104, 106, 129, 1, 75, 89, 116, 25>>, 8)
\* the 8 bytes b of a signed integer, widened to 12 bytes
Widened(b) == (IF b[1] >= 128 THEN <<255, 255, 255, 255>> ELSE <<0, 0, 0, 0>>) \o b
\* the product of the signed integer b (8 bytes) and 1000000, in 12 bytes,
\* wide enough to hold it
Millionfold(b) == Reverse(MulSmall(Reverse(Widened(b)), 1000000, 0))
DateProcessed ==
    DateRead =>
        /\ status' = "run" /\ ret'.k = "map" /\ ret'.n = Top.obj
        /\ LET v == MapGet(maps'[ret'.n], KeyValue) IN
           /\ v.k = "time"
           \* the nanoseconds from 1970-01-01T00:00:00Z are t times 1000000
           /\ Widened(v.q) = Millionfold(SubSeq(ret.q[1].q, 1, 8))

\* C23: for java.util.Date `value` is the instant 1970-01-01T00:00:00Z plus
\* t milliseconds, t the big-endian signed 64-bit integer in the first 8
\* bytes of the first annotation, for every 64-bit t.
C23_DateValue == [][DateProcessed]_vars


\* content is about to read a byte that is no tag
UnknownNext ==
    /\ Running("content", "start") /\ pos < Len(input)
    /\ (input[pos + 1] < 112 \/ input[pos + 1] > 126)
UnknownLeft ==
    UnknownNext =>
        /\ status' = "error" /\ err'.kind = "UnknownTag"
        /\ pos' = (IF entry = "ParseSingleObject" THEN pos + 1 ELSE pos)
        /\ handles' = handles /\ maps' = maps /\ classes' = classes /\ out' = out

\* C24: when dispatch fails on an unknown tag byte, a buffered source is
\* left before the byte (the next read returns the same byte), an
\* unbuffered source (ParseSingleObject) is left after it, and nothing else
\* of the parser's state, the handle table included, changes.
C24_UnknownByte ==
    /\ [][UnknownLeft]_vars
    /\ [](status = "error" /\ err.kind = "UnknownTag" =>
            IF entry = "ParseSingleObject"
            THEN pos >= 1 /\ input[pos] = err.tag
            ELSE pos < Len(input) /\ input[pos + 1] = err.tag)

C24_Witness ==
    /\ status = "error" /\ err.kind = "UnknownTag" /\ entry = "ParseSingleObject"
    /\ last.op = "content" /\ pos = last.pos + 1 /\ Len(handles) >= 2


\* C25: from every class descriptor the parser builds, the super links reach
\* null after finitely many steps: no descriptor is its own super or its
\* own ancestor.
C25_FiniteSuper ==
    \A c \in 1..Len(classes) : c \notin Chain(classes[c].super, {})


\* name@serialVersionUID of the class is a key of KnownPostProcs
Registered(cls) ==
    \E j \in 1..Len(KnownPostProcs) :
        KnownPostProcs[j].sig = cls.name \o KeyAt \o cls.serialVersionUID
\* the step that takes the annotations read for the class data of a class
AnnotationsTaken == Running("annotationsAsMap", "annotations")
PostProcessed ==
    AnnotationsTaken =>
        LET cls == classes[Top.cls]
            nibble == cls.flags % 16
            data == Top.obj
            invoked == last'.op = "annotationsAsMapPostProc" /\ last'.arg = 1
        IN  /\ nibble \in {3, 12}
            /\ invoked <=> (nibble = 3 /\ Registered(cls))
            \* nibble 0x0C: no declared field was read
            /\ nibble = 12 => maps[data] = <<>>
            \* not post-processed: the raw annotations under @, nothing more
            /\ ~invoked => /\ status' = "run" /\ ret' = MapV(data)
                           /\ maps' = [maps EXCEPT ![data] = MapPut(@, KeyAt, ret)]
            \* post-processed: a shape error, or `value` next to the annotations
            /\ invoked => \/ status' = "error" /\ err'.kind = "UnexpectedShape"
                          \/ /\ status' = "run" /\ ret' = MapV(data)
                             /\ MapGet(maps'[data], KeyAt) = ret
                             /\ MapHas(maps'[data], KeyValue)
\* no other step puts `@` or `value` into a record that is there, but the
\* reading of a declared field and the copying of a class's entries into
\* the object
OnlyThere ==
    ~AnnotationsTaken =>
        \A a \in 1..Len(maps) :
            \/ /\ MapHas(maps'[a], KeyAt) = MapHas(maps[a], KeyAt)
               /\ MapGet(maps'[a], KeyAt) = MapGet(maps[a], KeyAt)
               /\ MapGet(maps'[a], KeyValue) = MapGet(maps[a], KeyValue)
            \/ last'.op \in {"values", "valuesValue", "recursiveClassDataFields"}

\* C26: a post-processor is invoked for a class of an object's chain exactly
\* when the low nibble of the class flags is 0x03 and name@serialVersionUID
\* is a registered key.  A class with nibble 0x0C reads no declared field,
\* stores its annotations under `@` and is not post-processed, registered or
\* not; a class with nibble 0x03 that is not registered keeps its raw `@`
\* and gets no synthesized `value`.
C26_PostProcWhen == [][PostProcessed /\ OnlyThere]_vars

C26_Witness ==
    /\ last.op = "annotationsAsMapPostProc" /\ last.arg = 0 /\ status = "run"
    /\ \E j \in 1..Len(classes) :
          /\ classes[j].name = JavaUtilArrayList /\ Registered(classes[j])
          /\ classes[j].flags = 12
    /\ ret.k = "map" /\ maps[ret.n] = <<[key |-> KeyAt, val |-> Slice(<<Bytes(<<0, 0, 0, 1>>), Str(<<65>>)>>)]>>


RECURSIVE SentinelIn(_)
\* the value v is the EndBlockData sentinel or a sequence that holds it
SentinelIn(v) ==
    \/ v = endBlock
    \/ v.k = "slice" /\ \E j \in 1..Len(v.q) : SentinelIn(v.q[j])
\* the sentinel among the values returned
SentinelReturned == \E j \in 1..Len(out) : SentinelIn(out[j])
\* the sentinel as a field value, an enum constant, a stored annotation or
\* an array element in one of them
SentinelStored ==
    \/ \E a \in 1..Len(maps) : \E j \in 1..Len(maps[a]) : SentinelIn(maps[a][j].val)
    \/ \E c \in 1..Len(classes) :
          \E j \in 1..Len(classes[c].annotations) : SentinelIn(classes[c].annotations[j])
\* the sentinel in the handle table
SentinelHandle == \E h \in 1..Len(handles) : SentinelIn(handles[h])

\* C27: the EndBlockData sentinel is no value: it ends an annotation
\* sequence and occurs nowhere in the parser's output, not among the values
\* returned, not as a field value, an array element, an enum constant or a
\* stored annotation, and not in the handle table.
C27_NoSentinel == ~SentinelReturned /\ ~SentinelStored /\ ~SentinelHandle


\* a tag dispatch reads a byte or ends the parse
DispatchReads ==
    Running("content", "start") => pos' > pos \/ status' # "run"
\* the read of an element of a primitive array reads a byte or ends the parse
ElementReads ==
    (/\ Running("Array", "loop") /\ Top.i < Top.size
     /\ Top.prim \notin ContentHandlers)
        => pos' > pos \/ status' # "run"
\* the field loops stay within the field count read from the stream
FieldLoopsBounded ==
    \A j \in 1..Len(stack) :
        stack[j].fn = "values" /\ stack[j].pc # "start"
            => stack[j].i <= Len(classes[stack[j].cls].fields)
\* the class-data walk of one object is at each descriptor at most once
WalkOnce ==
    \A i, j \in 1..Len(stack) :
        (/\ i < j
         /\ stack[i].fn = "recursiveClassData" /\ stack[j].fn = "recursiveClassData"
         /\ stack[i].obj = stack[j].obj)
            => stack[i].cls # stack[j].cls

\* C28: parsing terminates on every finite input: each tag dispatch and each
\* array-element read takes at least one byte or ends in an error, the field
\* loops are bounded by the field count, and the class-data walk reads each
\* descriptor at most once for an object, also when the super chain loops
\* back on itself.
C28_Terminates ==
    /\ <>(status # "run")
    /\ [](FieldLoopsBounded /\ WalkOnce /\ pos <= Len(input))
    /\ [][DispatchReads /\ ElementReads]_vars

C28_Witness ==
    /\ status = "ok" /\ Len(classes) = 2
    /\ classes[1].super = 2 /\ classes[2].super = 1
    /\ out # <<>> /\ out[1].k = "map"
    /\ LET extends == MapGet(maps[out[1].n], KeyExtends) IN
       /\ MapHas(maps[extends.n], <<65, 65>>) /\ MapHas(maps[extends.n], <<66, 66>>)

\* the record parseArray builds: "class" and "length", nothing else
IsArrayRecord(m) ==
    /\ Len(m) = 2 /\ m[1].key = KeyClass /\ m[2].key = KeyLength
    /\ m[1].val.k \in {"clazz", "nil"} /\ m[2].val.k = "int32"
\* the step of parseArray that has the class: the new handle is the record,
\* which holds the class and the size read, and an array without a class
\* yields nil
ArrayRegistered ==
    (Running("Array", "class") /\ status' = "run") =>
        LET a == Len(maps) + 1 IN
        /\ handles' = Append(handles, MapV(a))
        /\ Len(maps') = a /\ IsArrayRecord(maps'[a])
        /\ maps'[a][1].val = ret
        /\ maps'[a][2].val = Int32(readInt32(pos).v)
        /\ ret.k = "nil" => stack' = Pop /\ ret' = Nil
\* the step of parseArray that returns: the value is the sequence of the
\* elements read, as many as the size says, and the record is as it was
ArrayYielded ==
    (Running("Array", "loop") /\ Top.i >= Top.size) =>
        /\ ret' = Slice(Top.acc) /\ stack' = Pop
        /\ Len(Top.acc) = Top.i /\ (Top.size > 0 => Top.i = Top.size)
        /\ handles' = handles /\ maps' = maps
        /\ \E j \in 1..Len(handles) : handles[j] = MapV(Top.obj)
        /\ IsArrayRecord(maps[Top.obj])
        /\ maps[Top.obj][2].val = Int32(Top.size)
\* a Reference step gives what the handle table holds at its index
ReferenceResolved ==
    (Running("Reference", "start") /\ status' = "run") =>
        ret' = lookup(handles, refIndex(readInt32(pos).v))
\* no step changes an array's record once its size is in it
ArrayRecordKept ==
    \A a \in 1..Len(maps) :
        (IsArrayRecord(maps[a]) /\ ~(Running("Array", "class") /\ a = Len(maps)))
            => maps'[a] = maps[a]
NoSequenceHandle == \A j \in 1..Len(handles) : handles[j].k # "slice"

\* C29: the handle an Array tag registers is the record of class and length,
\* which never holds the elements, and the value the Array tag yields is the
\* element sequence; a later Reference to the array's handle gives the record
\* and never the element sequence.
C29_ArrayHandle ==
    /\ [][ArrayRegistered /\ ArrayYielded /\ ReferenceResolved /\ ArrayRecordKept]_vars
    /\ []NoSequenceHandle

\* a Reference has just resolved to the record of the int array whose
\* elements were the value of its first occurrence
C29_Witness ==
    /\ last.op = "parseReference" /\ ret.k = "map"
    /\ IsArrayRecord(maps[ret.n])
    /\ maps[ret.n][2].val = Int32(1)
    /\ classes[maps[ret.n][1].val.n].name = <<91, 73>>
    /\ handles[2] = ret
    /\ out = <<Slice(<<Int32(7)>>)>>

IsPrefix(p, s) == Len(p) <= Len(s) /\ SubSeq(s, 1, Len(p)) = p
SingleObjectReturned == entry = "ParseSingleObject" /\ status = "ok"
\* while ParseSingleObject runs no byte goes back to the source, and the
\* source has given the bytes read and no more
SingleObjectReading ==
    entry = "ParseSingleObject" => pos' >= pos /\ sourceTaken' = pos'

\* C30: ParseSingleObject on an unbuffered source reads the 4 header bytes
\* and the bytes of the first content value: when it returns a value, no
\* byte after the end of that value has been taken from the source.
C30_SingleObjectReads ==
    /\ [](SingleObjectReturned =>
            /\ Len(out) = 1 /\ sourceTaken = pos /\ pos >= 5
            /\ \A v \in FirstValues :
                  IsPrefix(StreamHeader \o v, input) => sourceTaken = 4 + Len(v))
    /\ [][SingleObjectReading]_vars

\* the self-referring object was returned and the string that follows it in
\* the source is still there
C30_Witness ==
    /\ SingleObjectReturned
    /\ input = SubSeq(SelfReferenceStream, 1, Len(SelfReferenceStream) - 5)
                  \o <<116, 0, 1, 65>>
    /\ sourceTaken = Len(input) - 4
    /\ out[1].k = "map"

====
